---- MODULE Spec2Model ----
(***************************************************************************)
(* Planning ingestion agent (apps/agents/planning-ingestion).              *)
(*                                                                         *)
(* Two state machines are modelled:                                        *)
(*   Spec       PlanningIngestionAgent: sync_source and the batch calls    *)
(*              sync_all / sync_by_frequency / sync_single, over a         *)
(*              metadata store, a scraper and the file search index.       *)
(*   SpecRetry  _retry_request of ConvexHTTPClient and of FirecrawlTool.   *)
(***************************************************************************)
EXTENDS Integers, Sequences, FiniteSets, TLC

VARIABLES
    \* ---- collaborators and agent fields (agent.py, gemini_filesearch.py)
    db,            \* metadata store: source id -> persisted document record
    index,         \* file search index: display name -> number of entries
    stores,        \* stores of the backend carrying the agent's display name
    store_cache,   \* GeminiFileSearchTool._store_cache[display name]
    store_name,    \* PlanningIngestionAgent._store_name
    \* ---- frame of the running top-level call
    op,            \* "none" | "sync_all" | "sync_by_frequency" | "sync_single"
    force,         \* the call's force argument
    sources,       \* the selected source list
    results,       \* results appended so far
    batch_out,     \* "none" | "returned" | "raised"
    summary,       \* the SyncSummary of a finished batch
    syncs,         \* sync_source invocations started so far
    \* ---- frame of sync_source
    pc,            \* position in sync_source
    source,        \* the source being synced (an entry of PLANNING_SOURCES)
    result,        \* ScrapeResult of step 1
    content_hash,  \* fingerprint of step 2
    hash_check,    \* answer of check_content_hash
    upload_result, \* UploadResult of step 5
    exc,           \* the exception being handled / raised
    ret,           \* the SyncResult sync_source returned
    calls,         \* collaborator calls issued by this invocation, in order
    \* ---- history used to state the properties
    db0,           \* db when the invocation started
    index0,        \* index when the invocation started
    existed,       \* whether a record existed right before the step-4 upsert
    fault,         \* whether a metadata store call of this invocation failed
    prev,          \* source id -> what the previous invocation on it saw
    \* ---- _retry_request (convex_client.py, tools/firecrawl_tool.py)
    rq_client,     \* "convex" | "firecrawl"
    rq_pc,         \* "idle" | "loop" | "returned" | "raised"
    attempt,       \* loop variable of range(max_retries)
    last_error,    \* last_error
    raised,        \* what the call raised
    requests,      \* responses observed by this call, in order
    sleeps,        \* asyncio.sleep calls of this call, in order
    now,           \* time.time()
    last_request_time, \* FirecrawlTool._last_request_time
    rq_calls,      \* _retry_request calls started so far
    rq_caller,     \* the method that called: "get_document" | "request"
    got,           \* what get_document gave its caller
    \* ---- run_sync (main.py)
    cli_args,      \* the arguments run_sync was called with
    cli_pc,        \* "none" | "syncing" | "exited" | "raised"
    printed,       \* the source lines the dry run printed
    exit_code,     \* what run_sync returned
    agent_created, \* whether create_agent() was called
    \* ---- the clients by themselves (convex_client.py, tools/)
    posted,        \* the last upsert_document / update_status request
    scrape_out,    \* the last scrape_page / scrape_pdf call and its result
    hashed,        \* the last two compute_content_hash calls
    \* ---- PlaywrightScraper (tools/playwright_scraper.py)
    playwright,    \* whether self._playwright holds a driver
    browser,       \* whether self._browser holds a browser
    drivers,       \* driver processes started and not stopped
    browsers,      \* browsers launched and not closed
    contexts,      \* browser contexts opened and not closed
    pages,         \* pages opened and not closed
    sc_pc,         \* position in the scrape, "idle" between calls
    sc_fn,         \* "scrape_page" | "scrape_pdf" | "close"
    poll_log,      \* per iteration of the polling loop: marker seen or not
    poll_sleeps,   \* the asyncio.sleep calls of the polling loop, in seconds
    sc_ret,        \* the outcome of the last call
    scrapes        \* scrape calls started so far

syncVars == <<db, index, stores, store_cache, store_name, op, force, sources,
              results, batch_out, summary, syncs, pc, source, result,
              content_hash, hash_check, upload_result, exc, ret, calls, db0,
              index0, existed, fault, prev>>
retryVars == <<rq_client, rq_pc, attempt, last_error, raised, requests,
               sleeps, now, last_request_time, rq_calls, rq_caller, got>>
cliVars == <<cli_args, cli_pc, printed, exit_code, agent_created>>
browserVars == <<playwright, browser, drivers, browsers, contexts, pages,
                 sc_pc, sc_fn, poll_log, poll_sleeps, sc_ret, scrapes>>
toolVars == <<posted, scrape_out, hashed, browserVars>>
vars == <<syncVars, retryVars, cliVars, toolVars>>

\* ------------------------------------------------------------------ bounds
NumSources == 2      \* sources of PLANNING_SOURCES kept in the model
MaxSyncs == 2        \* sync_source invocations per behaviour
MaxCalls == 2        \* _retry_request calls per behaviour
MaxResults == 3      \* results of a batch whose summary is drawn
NumSingle == 1       \* sources sync_single is called for

\* Optional values: None is the empty tuple, a present value a 1-tuple.
None == <<>>
Some(x) == <<x>>

\* ------------------------------------------------------------------ config.py
\* The configured sources (id, content type, sync frequency, category).
ConfiguredSources ==
    << [id |-> "home-building-sites", content_type |-> "html",
        sync_frequency |-> "weekly", category |-> "home-building"],
       [id |-> "vacant-side-lots", content_type |-> "html",
        sync_frequency |-> "weekly", category |-> "vacant-lots"],
       [id |-> "commercial-properties-main", content_type |-> "html",
        sync_frequency |-> "weekly", category |-> "commercial"],
       [id |-> "overlay-zone-sp", content_type |-> "html",
        sync_frequency |-> "weekly", category |-> "overlay-zones"],
       [id |-> "overlay-zone-diz", content_type |-> "html",
        sync_frequency |-> "weekly", category |-> "overlay-zones"],
       [id |-> "overlay-zone-msp", content_type |-> "html",
        sync_frequency |-> "weekly", category |-> "overlay-zones"],
       [id |-> "design-guidelines", content_type |-> "html",
        sync_frequency |-> "weekly", category |-> "design-guidelines"] >>

PLANNING_SOURCES == SubSeq(ConfiguredSources, 1, NumSources)

SourceIds == { PLANNING_SOURCES[i].id : i \in 1..Len(PLANNING_SOURCES) }
SingleIds == { PLANNING_SOURCES[i].id : i \in 1..NumSingle }

FILE_SEARCH_STORE_DISPLAY_NAME == "Milwaukee Planning Documents"


\* ------------------------------------------------------------------ content
\* Texts are sequences of code points, byte strings sequences of bytes.

\* Shortest page text the scraper returns as a success
\* (playwright_scraper.py: len(markdown.strip()) < 50 is a failure).
MinPageLength == 50

\* A page text: MinPageLength copies of one code point.
Page(cp) == [i \in 1..MinPageLength |-> cp]

\* The page texts a scrape can return, by name: ASCII "a"s and two-byte
\* U+00E9s.  A ScrapeResult holds the name of its text.
PageTexts == [ascii |-> Page(97), latin |-> Page(233)]
Markdowns == DOMAIN PageTexts
Text(m) == IF m \in Markdowns THEN PageTexts[m] ELSE <<>>

\* str.encode("utf-8") of one code point.
Utf8Char(cp) ==
    IF cp < 128 THEN <<cp>>
    ELSE IF cp < 2048 THEN <<192 + (cp \div 64), 128 + (cp % 64)>>
    ELSE <<224 + (cp \div 4096), 128 + ((cp \div 64) % 64), 128 + (cp % 64)>>

\* str.encode("utf-8")
\* (the text is split in halves to keep the evaluation shallow)
RECURSIVE Utf8Encode(_)
Utf8Encode(s) ==
    IF s = <<>> THEN <<>>
    ELSE IF Len(s) = 1 THEN Utf8Char(s[1])
    ELSE LET half == Len(s) \div 2 IN
         Utf8Encode(SubSeq(s, 1, half)) \o Utf8Encode(SubSeq(s, half + 1, Len(s)))

\* Width of the stand-in digest.
DigestModulus == 32749

\* 31^n modulo DigestModulus, by repeated squaring.
RECURSIVE Pow31(_)
Pow31(n) ==
    IF n = 0 THEN 1
    ELSE LET r == Pow31(n \div 2)
             sq == (r * r) % DigestModulus
         IN IF n % 2 = 0 THEN sq ELSE (sq * 31) % DigestModulus

\* The polynomial digest sum((b[i] + 1) * 31^(n - i)) modulo DigestModulus,
\* computed by halves.
RECURSIVE Poly(_)
Poly(bytes) ==
    IF bytes = <<>> THEN 0
    ELSE IF Len(bytes) = 1 THEN (bytes[1] + 1) % DigestModulus
    ELSE LET half == Len(bytes) \div 2
             left == SubSeq(bytes, 1, half)
             right == SubSeq(bytes, half + 1, Len(bytes))
         IN (Poly(left) * Pow31(Len(right)) + Poly(right)) % DigestModulus

\* hashlib.md5(b).hexdigest(): a fixed-width digest of the bytes.  MD5 itself
\* is not computed; the polynomial digest of the same bytes stands in for it.
Md5Hex(bytes) == <<"md5", Poly(bytes)>>

\* The code points of a str hashed as they are, without the encoding.
ContentHashUnencoded(content) == Md5Hex(content.data)

\* compute_content_hash: a str is encoded to UTF-8 first, bytes are hashed
\* as they are.  content is [kind |-> "str" | "bytes", data |-> sequence].
compute_content_hash(content) ==
    IF content.kind = "str" THEN Md5Hex(Utf8Encode(content.data))
    ELSE Md5Hex(content.data)

Str(s) == [kind |-> "str", data |-> s]
Bytes(b) == [kind |-> "bytes", data |-> b]

\* ------------------------------------------------------------------ values
\* ScrapeResult(success, markdown, error)
ScrapeOk(m) == [success |-> TRUE, markdown |-> Some(m), error |-> None]
ScrapeFailed(e) == [success |-> FALSE, markdown |-> None, error |-> Some(e)]
NoScrape == [success |-> FALSE, markdown |-> None, error |-> None]

ScrapeErrors == { <<"Scraped content too short or empty">> }

\* result.markdown or ""
MarkdownOrEmpty(r) == IF r.markdown = None THEN <<>> ELSE Text(r.markdown[1])

\* UploadResult(success, file_uri, error)
UploadOk(uri) == [success |-> TRUE, file_uri |-> uri, error |-> None]
UploadFailed(e) == [success |-> FALSE, file_uri |-> None, error |-> Some(e)]
NoUpload == [success |-> FALSE, file_uri |-> None, error |-> None]

\* SyncResult(source_id, success, action, message)
SyncResult(sid, ok, action, message) ==
    [source_id |-> sid, success |-> ok, action |-> action, message |-> message]

\* One collaborator call of the log.
Call(fn, status, msg) == [fn |-> fn, status |-> status, msg |-> msg]

\* What is remembered of an invocation: the page text it scraped, when the
\* scrape succeeded and none of its metadata store calls failed.
Seen(scraped, failed) == IF failed THEN None ELSE scraped
NoRun == None

\* ------------------------------------------------------------------ metadata store
\* The Convex backend (convex/http/planningIngestion.ts) keeps one record per
\* sourceId.  Of its fields the record keeps contentHash, status and
\* geminiFileUri; the others (title, markdownContent, errorMessage, ...) are
\* written by the agent and never compared or read back by it.
NoDoc == [exists |-> FALSE, contentHash |-> None, status |-> "",
          geminiFileUri |-> None]

\* POST /documents/upsert: create the record or overwrite the fields sent;
\* an optional field that is not sent keeps its stored value.
StoreUpsert(d, sid, hash, status, markdown) ==
    [d EXCEPT ![sid] =
        [exists |-> TRUE, contentHash |-> Some(hash), status |-> status,
         geminiFileUri |-> @.geminiFileUri]]

\* POST /documents/status: set the status and the optional fields sent of an
\* existing record; nothing is created for an unknown sourceId.
StoreStatus(d, sid, status, err, uri) ==
    IF ~d[sid].exists THEN d
    ELSE [d EXCEPT ![sid].status = status,
                   ![sid].geminiFileUri = IF uri = None THEN @ ELSE uri]

\* GET /documents/check-hash: {exists, changed}; changed carries no meaning
\* when the record does not exist, so either value may come back.
StoreCheckHash(d, sid, hash) ==
    IF d[sid].exists
    THEN { [exists |-> TRUE, changed |-> d[sid].contentHash # Some(hash)] }
    ELSE { [exists |-> FALSE, changed |-> c] : c \in BOOLEAN }

NoCheck == [exists |-> FALSE, changed |-> FALSE]

\* str(e) of a failed metadata store call.
StoreError(fn) == <<"convex request failed", fn>>


\* ------------------------------------------------------------------ index
\* Handle of the k-th store the backend holds under the display name.
StoreHandle(k) == <<"fileSearchStores", k>>

\* "PDF_BASE64:" as code points.
PdfMarker == <<80, 68, 70, 95, 66, 65, 83, 69, 54, 52, 58>>

\* result.markdown and result.markdown.startswith("PDF_BASE64:")
StartsWithPdfMarker(m) ==
    /\ Len(m) >= Len(PdfMarker)
    /\ SubSeq(m, 1, Len(PdfMarker)) = PdfMarker

\* display_name of the upload: "<category>/<id>.pdf" for a PDF_BASE64 payload,
\* "<category>/<id>" otherwise.
DisplayName(src, m) ==
    IF StartsWithPdfMarker(m) THEN <<src.category, src.id, ".pdf">>
    ELSE <<src.category, src.id>>

DisplayNames == { DisplayName(PLANNING_SOURCES[i], <<>>) :
                    i \in 1..Len(PLANNING_SOURCES) }

\* ------------------------------------------------------------------ sync_source
batchVars == <<op, force, sources, results, batch_out, summary, syncs>>
startVars == <<source, db0, index0, prev>>

Running == op # "none" /\ batch_out = "none"

\* return r
Return(r) ==
    /\ ret' = Some(r)
    /\ pc' = "done"
    /\ UNCHANGED <<exc, fault>>

\* A metadata store call raised inside the try block: control passes to the
\* except clause.
Except(e) ==
    /\ exc' = e
    /\ pc' = "handler"
    /\ fault' = TRUE
    /\ UNCHANGED ret

\* No return yet: on to the next step.
Continue(next) ==
    /\ pc' = next
    /\ UNCHANGED <<ret, exc, fault>>

\* A check made whatever the caller asked for.
ChecksHashAlways(f) == TRUE

\* A check that is never made.
ChecksHashNever(f) == FALSE

\* if not force:
ChecksHash(f) == ~f

\* A failed scrape tried a second time.
ScrapeTwice(src) ==
    LET fn == IF src.content_type = "html" THEN "scrape_page"
              ELSE "scrape_pdf"
    IN << Call(fn, "", None), Call(fn, "", None) >>

\* self.scraper.scrape_page(source.url) for a page, scrape_pdf for a PDF
ScrapeOnce(src) ==
    << Call(IF src.content_type = "html" THEN "scrape_page"
            ELSE "scrape_pdf", "", None) >>

\* Step 1 (and the loop head of the caller): scrape the next source; step 2
\* hashes the scraped text.  The scrapers catch every exception and turn it
\* into ScrapeResult(success=False).
Scrape ==
    /\ Running /\ pc = "idle" /\ Len(results) < Len(sources)
    /\ syncs < MaxSyncs
    /\ syncs' = syncs + 1
    /\ LET src == sources[Len(results) + 1] IN
       /\ source' = src
       /\ calls' = ScrapeOnce(src)
       /\ db0' = db /\ index0' = index
       /\ \E r \in { ScrapeOk(m) : m \in Markdowns }
                   \cup { ScrapeFailed(e) : e \in ScrapeErrors } :
            /\ result' = r
            /\ IF ~r.success
               THEN /\ pc' = "failed_get" /\ content_hash' = None
               ELSE /\ content_hash' =
                         Some(compute_content_hash(Str(MarkdownOrEmpty(r))))
                    /\ pc' = IF ChecksHash(force) THEN "check" ELSE "upsert"
    /\ UNCHANGED <<db, index, stores, store_cache, store_name, op, force,
                   sources, results, batch_out, summary, hash_check,
                   upload_result, exc, ret, existed, fault, prev, retryVars,
                   cliVars, toolVars>>

\* The status update made without asking whether a record exists.
FailedGetDocumentIgnored ==
    /\ pc = "failed_get"
    /\ calls' = Append(calls, Call("get_document", "", None))
    /\ Continue("failed_status")
    /\ UNCHANGED <<db, index, stores, store_cache, store_name, batchVars,
                   startVars, result, content_hash, hash_check,
                   upload_result, existed, retryVars, cliVars, toolVars>>

\* Scrape failed: look the record up before marking it.
FailedGetDocument ==
    /\ pc = "failed_get"
    /\ calls' = Append(calls, Call("get_document", "", None))
    /\ \/ db[source.id].exists /\ Continue("failed_status")
       \/ /\ ~db[source.id].exists
          /\ Return(SyncResult(source.id, FALSE, "error", result.error))
       \/ Except(Some(StoreError("get_document")))
    /\ UNCHANGED <<db, index, stores, store_cache, store_name, batchVars,
                   startVars, result, content_hash, hash_check,
                   upload_result, existed, retryVars, cliVars, toolVars>>

\* Scrape failed and a record exists: mark it as error.
FailedUpdateStatus ==
    /\ pc = "failed_status"
    /\ calls' = Append(calls, Call("update_status", "error", result.error))
    /\ \/ /\ db' = StoreStatus(db, source.id, "error", result.error, None)
          /\ Return(SyncResult(source.id, FALSE, "error", result.error))
       \/ /\ Except(Some(StoreError("update_status")))
          /\ UNCHANGED db
    /\ UNCHANGED <<index, stores, store_cache, store_name, batchVars,
                   startVars, result, content_hash, hash_check,
                   upload_result, existed, retryVars, cliVars, toolVars>>

\* The skip taken for a source the store does not know.
ShouldSkipUnknown(hc) == ~hc.changed

\* No skip at all.
ShouldSkipNever(hc) == FALSE

\* The skip taken on the wrong answer.
ShouldSkipChanged(hc) == hc.exists /\ hc.changed

\* if hash_check.get("exists") and not hash_check.get("changed")
ShouldSkip(hc) == hc.exists /\ ~hc.changed

\* Step 3: ask the store whether the fingerprint changed.
CheckContentHash ==
    /\ pc = "check"
    /\ calls' = Append(calls, Call("check_content_hash", "", None))
    /\ \/ \E hc \in StoreCheckHash(db, source.id, content_hash[1]) :
            /\ hash_check' = hc
            /\ IF ShouldSkip(hc)
               THEN Return(SyncResult(source.id, TRUE, "skipped",
                                      Some(<<"Content unchanged">>)))
               ELSE Continue("upsert")
       \/ /\ Except(Some(StoreError("check_content_hash")))
          /\ UNCHANGED hash_check
    /\ UNCHANGED <<db, index, stores, store_cache, store_name, batchVars,
                   startVars, result, content_hash, upload_result, existed,
                   retryVars, cliVars, toolVars>>

\* An upsert whose failure is not noticed: the run goes on to the upload.
UpsertDocumentUnchecked ==
    /\ pc = "upsert"
    /\ calls' = Append(calls, Call("upsert_document", "crawled",
                                   content_hash))
    /\ existed' = db[source.id].exists
    /\ hash_check' = NoCheck
    /\ Continue("store")
    /\ UNCHANGED <<db, index, stores, store_cache, store_name, batchVars,
                   startVars, result, content_hash, upload_result,
                   retryVars, cliVars, toolVars>>

\* Step 4: persist the crawled text and its fingerprint.  hash_check is not
\* read past this point and is dropped here.
UpsertDocument ==
    /\ pc = "upsert"
    /\ calls' = Append(calls, Call("upsert_document", "crawled",
                                   content_hash))
    /\ existed' = db[source.id].exists
    /\ hash_check' = NoCheck
    /\ \/ /\ db' = StoreUpsert(db, source.id, content_hash[1], "crawled",
                               result.markdown)
          /\ Continue("store")
       \/ /\ Except(Some(StoreError("upsert_document")))
          /\ UNCHANGED db
    /\ UNCHANGED <<index, stores, store_cache, store_name, batchVars,
                   startVars, result, content_hash, upload_result,
                   retryVars, cliVars, toolVars>>

\* A resolution that looks at no cache: every call lists, and creates when
\* the listing brings nothing.
GetStoreNameUncached ==
    /\ pc = "store"
    /\ \E listed \in BOOLEAN :
         IF listed /\ stores > 0
         THEN /\ store_cache' = Some(StoreHandle(1))
              /\ store_name' = Some(StoreHandle(1))
              /\ calls' = Append(calls, Call("list_stores", "", None))
              /\ Continue("upload")
              /\ UNCHANGED stores
         ELSE /\ calls' = calls \o << Call("list_stores", "", None),
                                     Call("create_store", "", None) >>
              /\ stores' = stores + 1
              /\ store_cache' = Some(StoreHandle(stores + 1))
              /\ store_name' = Some(StoreHandle(stores + 1))
              /\ Continue("upload")
    /\ UNCHANGED <<db, index, batchVars, startVars, result, content_hash,
                   hash_check, upload_result, existed, retryVars,
                   cliVars, toolVars>>

\* A failed resolution that leaves a handle behind all the same.
ResolutionFailedCached ==
    /\ exc' = Some(<<"create store failed">>)
    /\ pc' = "handler"
    /\ store_name' = Some(StoreHandle(stores + 1))
    /\ store_cache' = Some(StoreHandle(stores + 1))
    /\ UNCHANGED <<stores, ret, fault>>

\* file_search_stores.create raises: neither "self._store_cache[...] = ..."
\* nor "self._store_name, _ = ..." is reached, and the exception arrives at
\* the except clause of sync_source.
ResolutionFailed ==
    /\ exc' = Some(<<"create store failed">>)
    /\ pc' = "handler"
    /\ UNCHANGED <<stores, store_cache, store_name, ret, fault>>

\* Step 5a: _get_store_name, and get_or_create_store on its first use: the
\* cache, then the listing (a failed listing is ignored), then a create.
GetStoreName ==
    /\ pc = "store"
    /\ IF store_name # None
       THEN /\ Continue("upload")
            /\ UNCHANGED <<store_name, store_cache, stores, calls>>
       ELSE IF store_cache # None
       THEN /\ store_name' = store_cache
            /\ Continue("upload")
            /\ UNCHANGED <<store_cache, stores, calls>>
       ELSE \E listed \in BOOLEAN :
              IF listed /\ stores > 0
              THEN /\ store_cache' = Some(StoreHandle(1))
                   /\ store_name' = Some(StoreHandle(1))
                   /\ calls' = Append(calls, Call("list_stores", "", None))
                   /\ Continue("upload")
                   /\ UNCHANGED stores
              ELSE /\ calls' = calls \o << Call("list_stores", "", None),
                                          Call("create_store", "", None) >>
                   /\ \/ /\ stores' = stores + 1
                         /\ store_cache' = Some(StoreHandle(stores + 1))
                         /\ store_name' = Some(StoreHandle(stores + 1))
                         /\ Continue("upload")
                      \/ ResolutionFailed
    /\ UNCHANGED <<db, index, batchVars, startVars, result, content_hash,
                   hash_check, upload_result, existed, retryVars,
                   cliVars, toolVars>>

\* A failed upload taken for a success.
AfterUploadIndexed(u) == "indexed"

\* if not upload_result.success
AfterUpload(u) == IF u.success THEN "indexed" ELSE "upload_failed"

\* Step 5b: upload_pdf for a PDF_BASE64 payload, upload_markdown otherwise.
\* Both turn every failure into UploadResult(success=False); a success
\* carries result.name, or no reference when the result has no name.
Upload ==
    /\ pc = "upload"
    /\ LET m == Text(result.markdown[1])
           dn == DisplayName(source, m)
           fn == IF StartsWithPdfMarker(m) THEN "upload_pdf"
                 ELSE "upload_markdown"
       IN /\ calls' = Append(calls, Call(fn, "", None))
          /\ \/ /\ index' = [index EXCEPT ![dn] = @ + 1]
                /\ \E named \in BOOLEAN :
                     upload_result' =
                        UploadOk(IF named THEN Some(<<dn, index[dn] + 1>>)
                                 ELSE None)
                /\ Continue(AfterUpload(upload_result'))
             \/ /\ upload_result' = UploadFailed(<<"upload error">>)
                /\ Continue(AfterUpload(upload_result'))
                /\ UNCHANGED index
    /\ UNCHANGED <<db, stores, store_cache, store_name, batchVars, startVars,
                   result, content_hash, hash_check, existed, retryVars,
                   cliVars, toolVars>>

\* f"Gemini upload failed: {upload_result.error}"
UploadFailedMessage(u) == Some(<<"Gemini upload failed: ">> \o u.error[1])

\* The failure reported without a status update.
UploadFailedUnrecorded ==
    /\ pc = "upload_failed"
    /\ Return(SyncResult(source.id, FALSE, "error",
                         UploadFailedMessage(upload_result)))
    /\ UNCHANGED <<db, calls, index, stores, store_cache, store_name,
                   batchVars, startVars, result, content_hash, hash_check,
                   upload_result, existed, retryVars, cliVars, toolVars>>

\* The upload failed: mark the record as error and report the failure.
UploadFailedStatus ==
    /\ pc = "upload_failed"
    /\ calls' = Append(calls, Call("update_status", "error",
                                   UploadFailedMessage(upload_result)))
    /\ \/ /\ db' = StoreStatus(db, source.id, "error",
                               UploadFailedMessage(upload_result), None)
          /\ Return(SyncResult(source.id, FALSE, "error",
                               UploadFailedMessage(upload_result)))
       \/ /\ Except(Some(StoreError("update_status")))
          /\ UNCHANGED db
    /\ UNCHANGED <<index, stores, store_cache, store_name, batchVars,
                   startVars, result, content_hash, hash_check,
                   upload_result, existed, retryVars, cliVars, toolVars>>

\* The status update not waited for: its failure goes unnoticed.
StatusIndexedUnacknowledged ==
    /\ pc = "indexed"
    /\ calls' = Append(calls, Call("update_status", "indexed",
                                   upload_result.file_uri))
    /\ \/ /\ db' = StoreStatus(db, source.id, "indexed", None,
                               upload_result.file_uri)
          /\ Continue("get_existing")
       \/ /\ pc' = "get_existing" /\ fault' = TRUE
          /\ UNCHANGED <<db, ret, exc>>
    /\ UNCHANGED <<index, stores, store_cache, store_name, batchVars,
                   startVars, result, content_hash, hash_check,
                   upload_result, existed, retryVars, cliVars, toolVars>>

\* Step 6: mark the record as indexed, with the reference of the upload.
StatusIndexed ==
    /\ pc = "indexed"
    /\ calls' = Append(calls, Call("update_status", "indexed",
                                   upload_result.file_uri))
    /\ \/ /\ db' = StoreStatus(db, source.id, "indexed", None,
                               upload_result.file_uri)
          /\ Continue("get_existing")
       \/ /\ Except(Some(StoreError("update_status")))
          /\ UNCHANGED db
    /\ UNCHANGED <<index, stores, store_cache, store_name, batchVars,
                   startVars, result, content_hash, hash_check,
                   upload_result, existed, retryVars, cliVars, toolVars>>

\* action = "updated" if existing else "created"
ActionOf(existing) == IF existing THEN "updated" ELSE "created"

\* "Determine action": get_document after the upsert and the status update.
DetermineAction ==
    /\ pc = "get_existing"
    /\ calls' = Append(calls, Call("get_document", "", None))
    /\ \/ LET action == ActionOf(db[source.id].exists) IN
          Return(SyncResult(source.id, TRUE, action,
                            Some(<<"Successfully ", action>>)))
       \/ Except(Some(StoreError("get_document")))
    /\ UNCHANGED <<db, index, stores, store_cache, store_name, batchVars,
                   startVars, result, content_hash, hash_check,
                   upload_result, existed, retryVars, cliVars, toolVars>>

\* What the except clause does when its own update_status call raises:
\* nothing catches it, the exception leaves sync_source.
HandlerStatusFailed ==
    /\ exc' = Some(StoreError("update_status"))
    /\ pc' = "raised"
    /\ fault' = TRUE
    /\ UNCHANGED ret

\* except Exception as e: update_status(error, str(e)), then the error
\* result.
Handler ==
    /\ pc = "handler"
    /\ calls' = Append(calls, Call("update_status", "error", exc))
    /\ \/ /\ db' = StoreStatus(db, source.id, "error", exc, None)
          /\ Return(SyncResult(source.id, FALSE, "error", exc))
       \/ /\ HandlerStatusFailed
          /\ UNCHANGED db
    /\ UNCHANGED <<index, stores, store_cache, store_name, batchVars,
                   startVars, result, content_hash, hash_check,
                   upload_result, existed, retryVars, cliVars, toolVars>>

\* ------------------------------------------------------------------ batch calls
Idle == (op = "none" \/ batch_out # "none") /\ pc = "idle"

NoSummary == [total |-> 0, created |-> 0, updated |-> 0, skipped |-> 0,
              failed |-> 0, results |-> <<>>]

\* The locals of sync_source outside an invocation.
FrameCleared ==
    /\ pc' = "idle" /\ result' = NoScrape /\ content_hash' = None
    /\ hash_check' = NoCheck /\ upload_result' = NoUpload
    /\ ret' = None /\ calls' = <<>> /\ existed' = FALSE /\ fault' = FALSE
    /\ db0' = db /\ index0' = index

\* Entering a top-level call.
Enter(name, f, selected, rs) ==
    /\ Idle
    /\ op' = name /\ force' = f /\ sources' = selected /\ results' = rs
    /\ batch_out' = "none" /\ summary' = NoSummary /\ exc' = None
    /\ UNCHANGED <<db, index, stores, store_cache, store_name, syncs, pc,
                   source, result, content_hash, hash_check, upload_result,
                   ret, calls, db0, index0, existed, fault, prev, retryVars>>

\* [s for s in PLANNING_SOURCES if s.sync_frequency == frequency]
RECURSIVE Filter(_, _)
Filter(seq, frequency) ==
    IF seq = <<>> THEN <<>>
    ELSE IF Head(seq).sync_frequency = frequency
    THEN <<Head(seq)>> \o Filter(Tail(seq), frequency)
    ELSE Filter(Tail(seq), frequency)

\* next((s for s in PLANNING_SOURCES if s.id == source_id), None)
RECURSIVE Find(_, _)
Find(seq, sid) ==
    IF seq = <<>> THEN <<>>
    ELSE IF Head(seq).id = sid THEN <<Head(seq)>>
    ELSE Find(Tail(seq), sid)

\* sync_all(force)
sync_all(f) == Enter("sync_all", f, PLANNING_SOURCES, <<>>)

\* sync_by_frequency(frequency, force)
sync_by_frequency(frequency, f) ==
    Enter("sync_by_frequency", f, Filter(PLANNING_SOURCES, frequency), <<>>)

SyncAll == (\E f \in BOOLEAN : sync_all(f)) /\ UNCHANGED <<cliVars, toolVars>>

SyncByFrequency ==
    /\ \E f \in BOOLEAN, frequency \in {"weekly", "monthly"} :
         sync_by_frequency(frequency, f)
    /\ UNCHANGED <<cliVars, toolVars>>

\* An unknown id reported as an error that succeeded.
NotFoundSucceeded(sid) ==
    SyncResult(sid, TRUE, "error", Some(<<"Source not found: ", sid>>))

\* An unknown id reported as a skip.
NotFoundSkipped(sid) ==
    SyncResult(sid, TRUE, "skipped", Some(<<"Source not found: ", sid>>))

\* SyncResult(success=False, action="error",
\*            message=f"Source not found: {source_id}")
NotFound(sid) ==
    SyncResult(sid, FALSE, "error", Some(<<"Source not found: ", sid>>))

\* sync_single: an unknown id is answered at once, a known one is synced.
sync_single(sid, f) ==
    LET found == Find(PLANNING_SOURCES, sid) IN
    IF found = <<>>
    THEN Enter("sync_single", f, <<>>, << NotFound(sid) >>)
    ELSE Enter("sync_single", f, found, <<>>)

SyncSingle ==
    /\ \E f \in BOOLEAN, sid \in SingleIds \cup {"no-such-source"} :
         sync_single(sid, f)
    /\ UNCHANGED <<cliVars, toolVars>>

\* The result put in front of the earlier ones.
CollectPrepended ==
    /\ pc = "done"
    /\ results' = <<ret[1]>> \o results
    /\ prev' = [prev EXCEPT ![source.id] = Seen(result.markdown, fault)]
    /\ FrameCleared
    /\ exc' = None
    /\ UNCHANGED <<db, index, stores, store_cache, store_name, op, force,
                   sources, batch_out, summary, syncs, source, retryVars,
                   cliVars, toolVars>>

\* results.append(result) in the loops; sync_single hands the result on.
Collect ==
    /\ pc = "done"
    /\ results' = Append(results, ret[1])
    /\ prev' = [prev EXCEPT ![source.id] = Seen(result.markdown, fault)]
    /\ FrameCleared
    /\ exc' = None
    /\ UNCHANGED <<db, index, stores, store_cache, store_name, op, force,
                   sources, batch_out, summary, syncs, source, retryVars,
                   cliVars, toolVars>>

\* No caller of sync_source catches: the exception leaves the top-level call.
Propagate ==
    /\ pc = "raised"
    /\ batch_out' = "raised"
    /\ prev' = [prev EXCEPT ![source.id] = Seen(result.markdown, fault)]
    /\ FrameCleared
    /\ UNCHANGED <<db, index, stores, store_cache, store_name, op, force,
                   sources, results, summary, syncs, source, exc, retryVars,
                   cliVars, toolVars>>

\* sum(1 for r in results if r.action == a)
CountAction(rs, a) == Cardinality({ i \in DOMAIN rs : rs[i].action = a })

\* A summary that leaves the skipped sources out of its counts.
SyncSummaryNoSkips(rs) ==
    [total |-> Len(rs),
     created |-> CountAction(rs, "created"),
     updated |-> CountAction(rs, "updated"),
     skipped |-> 0,
     failed |-> CountAction(rs, "error"),
     results |-> rs]

\* SyncSummary(total, created, updated, skipped, failed, results)
SyncSummary(rs) ==
    [total |-> Len(rs),
     created |-> CountAction(rs, "created"),
     updated |-> CountAction(rs, "updated"),
     skipped |-> CountAction(rs, "skipped"),
     failed |-> CountAction(rs, "error"),
     results |-> rs]

\* The loop is over (or sync_single has its result): the call returns.
Finish ==
    /\ Running /\ pc = "idle"
    /\ IF op = "sync_single" THEN Len(results) = 1
       ELSE Len(results) = Len(sources)
    /\ batch_out' = "returned"
    /\ summary' = IF op = "sync_single" THEN NoSummary ELSE SyncSummary(results)
    /\ UNCHANGED <<db, index, stores, store_cache, store_name, op, force,
                   sources, results, syncs, pc, source, result, content_hash,
                   hash_check, upload_result, exc, ret, calls, db0, index0,
                   existed, fault, prev, retryVars, cliVars, toolVars>>

\* ------------------------------------------------------------------ _retry_request
\* max_retries: int = 3 (ConvexHTTPClient), MAX_RETRIES = 3 (FirecrawlTool)
MAX_RETRIES == 3
\* RATE_LIMIT_DELAY = 6.0
RATE_LIMIT_DELAY == 6
\* int(response.headers.get("Retry-After", 60))
DefaultRetryAfter == 60

\* A Retry-After value of seconds that a server sends.
RetryAfterSeconds == 2
\* time.time() when the client is constructed.
InitialClock == 10

\* What one client.request can bring: a response (status, Retry-After
\* header) or a connection-level failure (timeout, refused, DNS).
\* The header is absent, a number of seconds, or an HTTP date.
Response(status, header) ==
    [kind |-> "response", status |-> status, retry_after |-> header]
ConnectionFailure ==
    [kind |-> "failure", status |-> 0, retry_after |-> "absent"]
Outcomes ==
    { Response(st, "absent") : st \in {200, 400, 404, 500} }
    \cup { Response(429, h) : h \in {"absent", "seconds", "date"} }
    \cup { ConnectionFailure }

\* The exceptions: httpx.HTTPStatusError (from raise_for_status),
\* httpx.RequestError, and what Python raises by itself.
HTTPStatusError(status, at) ==
    Some([type |-> "HTTPStatusError", status |-> status, at |-> at])
RequestError(at) ==
    Some([type |-> "RequestError", status |-> 0, at |-> at])
\* int("<an HTTP date>")
ValueError(at) ==
    Some([type |-> "ValueError", status |-> 429, at |-> at])
\* raise None
TypeError(at) ==
    Some([type |-> "TypeError", status |-> 0, at |-> at])

Sleep(why, secs, at) == [why |-> why, secs |-> secs, after |-> at]

RECURSIVE Pow2(_)
Pow2(n) == IF n = 0 THEN 1 ELSE 2 * Pow2(n - 1)

\* Every error status taken as terminal.
ConvexTerminalAny(status) == 400 <= status

\* 400 <= e.response.status_code < 500 (ConvexHTTPClient)
ConvexTerminal(status) == 400 <= status /\ status < 500
\* The range opened one status too late.
FirecrawlTerminalAbove(status) == 400 < status /\ status < 500 /\ status # 429

\* 400 <= status < 500 and status != 429 (FirecrawlTool)
FirecrawlTerminal(status) == 400 <= status /\ status < 500 /\ status # 429

\* A backoff slept after every attempt, the last one too.
BackoffAlways(at) == << Sleep("backoff", Pow2(at), at) >>

\* asyncio.sleep(2 ** attempt) unless this was the last attempt.
Backoff(at) ==
    IF at < MAX_RETRIES - 1 THEN << Sleep("backoff", Pow2(at), at) >> ELSE <<>>

RECURSIVE Total(_)
Total(sl) == IF sl = <<>> THEN 0 ELSE Head(sl).secs + Total(Tail(sl))

\* raise last_error, after the loop
RaiseLast(err, at) == IF err = None THEN TypeError(at) ELSE err

\* The end of one loop iteration that neither returned nor raised: the next
\* iteration, or "raise last_error" when the range is used up.
NextIteration(err, slept) ==
    /\ last_error' = err
    /\ sleeps' = sleeps \o slept
    /\ attempt' = attempt + 1
    /\ IF attempt + 1 < MAX_RETRIES
       THEN rq_pc' = "loop" /\ raised' = None
       ELSE rq_pc' = "raised" /\ raised' = RaiseLast(err, attempt)

\* A success that still answers for an earlier attempt's error.
ReturnOrRaiseEarlier(slept) ==
    /\ sleeps' = sleeps \o slept
    /\ IF last_error = None
       THEN rq_pc' = "returned" /\ raised' = None
       ELSE rq_pc' = "raised" /\ raised' = last_error
    /\ UNCHANGED <<last_error, attempt>>

\* return response
ReturnResponse(slept) ==
    /\ rq_pc' = "returned"
    /\ sleeps' = sleeps \o slept
    /\ UNCHANGED <<last_error, attempt, raised>>

\* an exception leaves _retry_request from inside the loop
RaiseNow(e, slept) ==
    /\ rq_pc' = "raised" /\ raised' = e
    /\ sleeps' = sleeps \o slept
    /\ UNCHANGED <<last_error, attempt>>

\* What get_document gives its caller: nothing yet, the document, None, or
\* the exception it lets through.
Pending == [out |-> "pending", error |-> None]
Document == [out |-> "document", error |-> None]
ReturnedNone == [out |-> "None", error |-> None]
Raised(e) == [out |-> "raised", error |-> e]

\* The methods of a client that call its _retry_request.
Callers(client) ==
    IF client = "convex" THEN {"get_document", "request"} ELSE {"request"}

\* A caller enters _retry_request; some time has passed since the last call.
BeginRequest ==
    /\ rq_pc # "loop" /\ rq_calls < MaxCalls
    /\ rq_caller = "get_document" => got # Pending
    /\ \E client \in {"convex", "firecrawl"}, gap \in {0, RATE_LIMIT_DELAY} :
         /\ rq_client' = client
         /\ now' = now + gap
         /\ \E c \in Callers(client) : rq_caller' = c
    /\ got' = Pending
    /\ rq_pc' = "loop" /\ attempt' = 0 /\ last_error' = None
    /\ raised' = None /\ requests' = <<>> /\ sleeps' = <<>>
    /\ rq_calls' = rq_calls + 1
    /\ UNCHANGED <<last_request_time, syncVars, cliVars, toolVars>>

\* One iteration of ConvexHTTPClient._retry_request.
ConvexAttempt ==
    /\ rq_pc = "loop" /\ rq_client = "convex"
    /\ \E o \in Outcomes :
         /\ requests' = Append(requests, o @@ [t |-> now])
         /\ IF o.kind = "failure"
            THEN NextIteration(RequestError(attempt), Backoff(attempt))
            ELSE IF o.status < 400
            THEN ReturnResponse(<<>>)
            ELSE IF ConvexTerminal(o.status)
            THEN RaiseNow(HTTPStatusError(o.status, attempt), <<>>)
            ELSE NextIteration(HTTPStatusError(o.status, attempt),
                               Backoff(attempt))
    /\ now' = now + Total(SubSeq(sleeps', Len(sleeps) + 1, Len(sleeps')))
    /\ UNCHANGED <<rq_client, last_request_time, rq_calls, rq_caller, got,
                   syncVars, cliVars, toolVars>>

\* A 429 answered by asking again within the same attempt.
RateLimitedAgain(slept) ==
    /\ rq_pc' = "loop" /\ raised' = None
    /\ sleeps' = sleeps \o slept
    /\ UNCHANGED <<last_error, attempt>>

\* if response.status_code == 429: sleep(retry_after); continue -- the for
\* loop moves to its next attempt, last_error is left as it was.
RateLimited(slept) == NextIteration(last_error, slept)

\* No rate limiting.
RateLimitNone(at) == <<>>

\* _rate_limit: sleep for the rest of RATE_LIMIT_DELAY since the last request.
RateLimitSleep(at) ==
    IF now - last_request_time < RATE_LIMIT_DELAY
    THEN << Sleep("rate_limit", RATE_LIMIT_DELAY - (now - last_request_time), at) >>
    ELSE <<>>

\* One iteration of FirecrawlTool._retry_request.
FirecrawlAttempt ==
    /\ rq_pc = "loop" /\ rq_client = "firecrawl"
    /\ LET limit == RateLimitSleep(attempt)
           sent == now + Total(limit)
       IN /\ last_request_time' = sent
          /\ \E o \in Outcomes :
               /\ requests' = Append(requests, o @@ [t |-> sent])
               /\ IF o.kind = "failure"
                  THEN NextIteration(RequestError(attempt),
                                     limit \o Backoff(attempt))
                  ELSE IF o.status = 429
                  THEN IF o.retry_after = "date"
                       THEN RaiseNow(ValueError(attempt), limit)
                       ELSE RateLimited(
                              Append(limit, Sleep("retry_after",
                                  IF o.retry_after = "seconds"
                                  THEN RetryAfterSeconds
                                  ELSE DefaultRetryAfter, attempt)))
                  ELSE IF o.status < 400
                  THEN ReturnResponse(limit)
                  ELSE IF FirecrawlTerminal(o.status)
                  THEN RaiseNow(HTTPStatusError(o.status, attempt), limit)
                  ELSE NextIteration(HTTPStatusError(o.status, attempt),
                                     limit \o Backoff(attempt))
    /\ now' = now + Total(SubSeq(sleeps', Len(sleeps) + 1, Len(sleeps')))
    /\ UNCHANGED <<rq_client, rq_calls, rq_caller, got, syncVars, cliVars,
                   toolVars>>

\* Every client error taken for "not found".
IsNotFoundAnyClientError(e) ==
    e[1].type = "HTTPStatusError" /\ ConvexTerminal(e[1].status)

\* except httpx.HTTPStatusError as e: if e.response.status_code == 404
IsNotFound(e) == e[1].type = "HTTPStatusError" /\ e[1].status = 404

\* get_document after its _retry_request: return response.json(), return
\* None on a 404, let every other exception through.
GetDocument ==
    /\ rq_caller = "get_document" /\ got = Pending
    /\ rq_pc \in {"returned", "raised"}
    /\ got' = IF rq_pc = "returned" THEN Document
              ELSE IF IsNotFound(raised) THEN ReturnedNone
              ELSE Raised(raised)
    /\ UNCHANGED <<rq_client, rq_pc, attempt, last_error, raised, requests,
                   sleeps, now, last_request_time, rq_calls, rq_caller,
                   syncVars, cliVars, toolVars>>

NextRetry ==
    \/ BeginRequest
    \/ ConvexAttempt
    \/ FirecrawlAttempt
    \/ GetDocument

\* ------------------------------------------------------------------ run_sync
\* What argparse hands to run_sync: --frequency, --source and --all exclude
\* each other and one of them is required.
CliSelections ==
    { [frequency |-> Some(fr), source_id |-> None, all_sources |-> FALSE] :
        fr \in {"weekly", "monthly"} }
    \cup { [frequency |-> None, source_id |-> Some(sid),
            all_sources |-> FALSE] :
             sid \in SingleIds \cup {"", "no-such-source"} }
    \cup { [frequency |-> None, source_id |-> None, all_sources |-> TRUE] }

NoArgs == [frequency |-> None, source_id |-> None, all_sources |-> FALSE,
           force |-> FALSE, dry_run |-> FALSE, env_ok |-> TRUE]

\* "if x:" on an Optional[str]
Truthy(x) == x # None /\ x[1] # ""

\* [s for s in sources if s.id == source_id]
RECURSIVE FilterById(_, _)
FilterById(seq, sid) ==
    IF seq = <<>> THEN <<>>
    ELSE IF Head(seq).id = sid
    THEN <<Head(seq)>> \o FilterById(Tail(seq), sid)
    ELSE FilterById(Tail(seq), sid)

\* Every configured source listed, whatever was selected.
DryRunSelectionAll(a) == PLANNING_SOURCES

\* The sources the dry run lists.
DryRunSelection(a) ==
    IF Truthy(a.frequency)
    THEN Filter(PLANNING_SOURCES, a.frequency[1])
    ELSE IF Truthy(a.source_id)
    THEN FilterById(PLANNING_SOURCES, a.source_id[1])
    ELSE PLANNING_SOURCES

\* for source in sources: print(f"  - {source.id} ...")
PrintSources(seq) == [i \in DOMAIN seq |-> seq[i].id]

\* return <code>, nothing else done
ExitWith(code, lines) ==
    /\ cli_pc' = "exited" /\ exit_code' = Some(code) /\ printed' = lines
    /\ agent_created' = FALSE
    /\ UNCHANGED syncVars

\* run_sync up to its first await on the agent: the environment check, the
\* dry run, the creation of the agent and the call of one of its methods.
RunSync ==
    /\ cli_pc = "none"
    /\ \E sel \in CliSelections, f \in BOOLEAN, dry \in BOOLEAN,
          env \in BOOLEAN :
         LET a == sel @@ [force |-> f, dry_run |-> dry, env_ok |-> env] IN
         /\ cli_args' = a
         /\ IF ~a.env_ok
            THEN ExitWith(1, <<>>)
            ELSE IF a.dry_run
            THEN ExitWith(0, PrintSources(DryRunSelection(a)))
            ELSE IF Truthy(a.source_id)
            THEN /\ sync_single(a.source_id[1], a.force)
                 /\ cli_pc' = "syncing" /\ agent_created' = TRUE
                 /\ UNCHANGED <<printed, exit_code>>
            ELSE IF Truthy(a.frequency)
            THEN /\ sync_by_frequency(a.frequency[1], a.force)
                 /\ cli_pc' = "syncing" /\ agent_created' = TRUE
                 /\ UNCHANGED <<printed, exit_code>>
            ELSE IF a.all_sources
            THEN /\ sync_all(a.force)
                 /\ cli_pc' = "syncing" /\ agent_created' = TRUE
                 /\ UNCHANGED <<printed, exit_code>>
            ELSE /\ cli_pc' = "exited" /\ exit_code' = Some(1)
                 /\ agent_created' = TRUE
                 /\ UNCHANGED <<printed, syncVars>>
    /\ UNCHANGED <<retryVars, toolVars>>

\* A batch that always exits with 0.
BatchExitZero(sm) == 0

\* return 0 if summary.failed == 0 else 1
BatchExit(sm) == IF sm.failed = 0 THEN 0 ELSE 1

\* return 0 if result.success else 1
SingleExit(r) == IF r.success THEN 0 ELSE 1

\* The agent's method is over: run_sync returns 0 or 1, or the exception
\* of the method leaves run_sync.
RunSyncReturn ==
    /\ cli_pc = "syncing" /\ batch_out # "none"
    /\ IF batch_out = "raised"
       THEN cli_pc' = "raised" /\ UNCHANGED exit_code
       ELSE /\ cli_pc' = "exited"
            /\ exit_code' =
                 IF op = "sync_single"
                 THEN Some(SingleExit(results[1]))
                 ELSE Some(BatchExit(summary))
    /\ UNCHANGED <<cli_args, printed, agent_created, syncVars, retryVars,
                   toolVars>>

CliInit ==
    /\ cli_args = NoArgs /\ cli_pc = "none" /\ printed = <<>>
    /\ exit_code = None /\ agent_created = FALSE

\* ------------------------------------------------------------------ request bodies
\* The values an optional argument takes: left out, empty, or a text.
OptionalTexts == {None, Some(""), Some("text")}

\* No request sent yet.
NothingSent == [fn |-> "none", args |-> <<>>, body |-> <<>>]

\* An optional field always in the body, null when the argument is None.
FieldOrNull(key, v) == [k \in {key} |-> IF v = None THEN "null" ELSE v[1]]

\* if v is not None: payload[key] = v
Field(key, v) ==
    IF v # None THEN [k \in {key} |-> v[1]] ELSE [k \in {} |-> ""]

\* The payload of upsert_document.
UpsertPayload(a) ==
    [sourceId |-> a.source_id, sourceUrl |-> a.source_url,
     title |-> a.title, contentType |-> a.content_type,
     category |-> a.category, syncFrequency |-> a.sync_frequency,
     contentHash |-> a.content_hash, status |-> a.status]
    @@ Field("markdownContent", a.markdown_content)
    @@ Field("pdfStorageId", a.pdf_storage_id)

\* The payload of update_status.
StatusPayload(a) ==
    [sourceId |-> a.source_id, status |-> a.status]
    @@ Field("errorMessage", a.error_message)
    @@ Field("geminiFileUri", a.gemini_file_uri)
    @@ Field("fileSearchStoreId", a.file_search_store_id)

\* ConvexHTTPClient.upsert_document up to its request.
upsert_document ==
    /\ \E i \in DOMAIN PLANNING_SOURCES, md \in OptionalTexts,
          pdf \in OptionalTexts :
         LET src == PLANNING_SOURCES[i]
             a == [source_id |-> src.id, source_url |-> "url",
                   title |-> "title", content_type |-> src.content_type,
                   category |-> src.category,
                   sync_frequency |-> src.sync_frequency,
                   content_hash |-> "hash", status |-> "crawled",
                   markdown_content |-> md, pdf_storage_id |-> pdf]
         IN posted' = [fn |-> "upsert_document", args |-> a,
                     body |-> UpsertPayload(a)]
    /\ UNCHANGED <<scrape_out, hashed, browserVars, syncVars, retryVars,
                   cliVars>>

\* ConvexHTTPClient.update_status up to its request.
update_status ==
    /\ \E sid \in SourceIds, st \in {"crawled", "indexed", "error"},
          err \in OptionalTexts, uri \in OptionalTexts,
          store \in OptionalTexts :
         LET a == [source_id |-> sid, status |-> st, error_message |-> err,
                   gemini_file_uri |-> uri, file_search_store_id |-> store]
         IN posted' = [fn |-> "update_status", args |-> a,
                     body |-> StatusPayload(a)]
    /\ UNCHANGED <<scrape_out, hashed, browserVars, syncVars, retryVars,
                   cliVars>>

NextPayload ==
    \/ upsert_document
    \/ update_status

\* ------------------------------------------------------------------ compute_content_hash
\* Longest content hashed by itself.
MaxContent == 2

\* Code points of one, two and three bytes in UTF-8: "a", U+00E9, U+20AC.
CodePoints == {97, 233, 8364}
\* Bytes: "a" and the two bytes of U+00E9.
ByteValues == {97, 195, 169}

SeqsUpTo(S, n) == UNION { [1..k -> S] : k \in 0..n }

\* What compute_content_hash is given: a str or bytes.
Contents ==
    { Str(t) : t \in SeqsUpTo(CodePoints, MaxContent) }
    \cup { Bytes(b) : b \in SeqsUpTo(ByteValues, MaxContent) }

NoHashCall == [content |-> Bytes(<<>>), digest |-> <<>>]
NotHashed == [last |-> NoHashCall, before |-> NoHashCall]

\* One call of compute_content_hash; the call before it is remembered.
ComputeContentHash ==
    /\ \E c \in Contents :
         hashed' = [last |-> [content |-> c,
                              digest |-> compute_content_hash(c)],
                    before |-> hashed.last]
    /\ UNCHANGED <<posted, scrape_out, browserVars, syncVars, retryVars,
                   cliVars>>

\* ------------------------------------------------------------------ scrapers
\* len(markdown.strip()) < 100 is a failure (FirecrawlTool.scrape_pdf)
MinDocumentLength == 100
\* len(pdf_content) > 100 is needed (PlaywrightScraper.scrape_pdf)
MinPdfBytes == 100

\* Whitespace around an extracted text, at most.
MaxPadding == 1

\* Lengths of the content a fetch extracts, around the two thresholds.
ContentLengths ==
    {0, 30, MinPageLength - 1, MinPageLength, 80, MinDocumentLength - 1,
     MinDocumentLength, MinDocumentLength + 1, 2 * MinDocumentLength}

\* An extracted text: its length, and its length without the whitespace
\* around it.
Texts ==
    { [raw |-> n + pad, stripped |-> n] :
        n \in ContentLengths, pad \in 0..MaxPadding }

NotScraped == [backend |-> "none", fn |-> "none", fetched |-> FALSE,
               raw |-> 0, length |-> 0, success |-> FALSE, error |-> ""]

\* One scrape call and the ScrapeResult it returned; raw is the length of
\* what the fetch extracted, when it extracted something, and length the
\* length of that without the whitespace around it.
Scraped(backend, fn, fetched, raw, length, success, error) ==
    [backend |-> backend, fn |-> fn, fetched |-> fetched, raw |-> raw,
     length |-> length, success |-> success, error |-> error]

\* A text of the threshold's length taken as too short.
TooShortOrEqual(text, min) == text.raw = 0 \/ text.stripped <= min

\* not markdown or len(markdown.strip()) < min
TooShort(text, min) == text.raw = 0 \/ text.stripped < min

\* pdf_content and len(pdf_content) > 100
LongEnough(bytes) == bytes # None /\ bytes[1] # 0 /\ bytes[1] > MinPdfBytes

\* PlaywrightScraper.scrape_page: the page's markdown is validated; any
\* exception on the way is a failed result.
PlaywrightScrapePage ==
    /\ \/ \E text \in Texts :
            scrape_out' =
              IF TooShort(text, MinPageLength)
              THEN Scraped("playwright", "scrape_page", TRUE, text.raw,
                           text.stripped,
                           FALSE, "Scraped content too short or empty")
              ELSE Scraped("playwright", "scrape_page", TRUE, text.raw,
                           text.stripped,
                           TRUE, "")
       \/ scrape_out' = Scraped("playwright", "scrape_page", FALSE, 0, 0, FALSE,
                             "str(e)")
    /\ UNCHANGED <<posted, hashed, browserVars, syncVars, retryVars,
                   cliVars>>

\* PlaywrightScraper.scrape_pdf: the bytes caught by the response handler,
\* else the body of the navigation's response, when longer than 100 bytes.
PlaywrightScrapePdf ==
    /\ \/ \E n \in ContentLengths, caught \in BOOLEAN, ok \in BOOLEAN :
            LET pdf_content == IF caught THEN Some(n) ELSE None
                body == IF ok THEN Some(n) ELSE None
            IN scrape_out' =
                 IF LongEnough(pdf_content) \/ LongEnough(body)
                 THEN Scraped("playwright", "scrape_pdf", caught \/ ok, n, n,
                              TRUE, "")
                 ELSE Scraped("playwright", "scrape_pdf", caught \/ ok, n, n,
                              FALSE, "Could not download PDF content")
       \/ scrape_out' = Scraped("playwright", "scrape_pdf", FALSE, 0, 0, FALSE,
                             "str(e)")
    /\ UNCHANGED <<posted, hashed, browserVars, syncVars, retryVars,
                   cliVars>>

\* FirecrawlTool.scrape_page and scrape_pdf: the request fails, the service
\* answers success=false, or the markdown it extracted is validated.
FirecrawlScrape(fn, min, short) ==
    /\ \/ \E text \in Texts :
            scrape_out' =
              IF TooShort(text, min)
              THEN Scraped("firecrawl", fn, TRUE, text.raw, text.stripped,
                           FALSE, short)
              ELSE Scraped("firecrawl", fn, TRUE, text.raw, text.stripped,
                           TRUE, "")
       \/ \E e \in {"data.error", "HTTP status", "str(e)"} :
            scrape_out' = Scraped("firecrawl", fn, FALSE, 0, 0, FALSE, e)
    /\ UNCHANGED <<posted, hashed, browserVars, syncVars, retryVars,
                   cliVars>>

FirecrawlScrapePage ==
    FirecrawlScrape("scrape_page", MinPageLength,
                    "Scraped content too short or empty")

FirecrawlScrapePdf ==
    FirecrawlScrape("scrape_pdf", MinDocumentLength,
                    "PDF content extraction too short or empty")

NextScrape ==
    \/ PlaywrightScrapePage
    \/ PlaywrightScrapePdf
    \/ FirecrawlScrapePage
    \/ FirecrawlScrapePdf

\* ------------------------------------------------------------------ PlaywrightScraper
\* scrape calls per behaviour
MaxScrapes == 2

\* for _ in range(10)
MaxPollIterations == 10
\* await asyncio.sleep(1) in the polling loop
PollSleepSeconds == 1

\* The outcome of a scrape_page, scrape_pdf or close call: a ScrapeResult,
\* or for close a normal return or the exception that left it.
NoOutcome == [kind |-> "none", success |-> FALSE, error |-> ""]
Result(ok, e) == [kind |-> "result", success |-> ok, error |-> e]
CloseReturned == [kind |-> "returned", success |-> TRUE, error |-> ""]
CloseRaised == [kind |-> "raised", success |-> FALSE, error |-> "str(e)"]

\* What a scrape extracts after the polling loop: a page text or the bytes
\* of a document, below or above the threshold.
Extracted ==
    [scrape_page |-> { [raw |-> n, stripped |-> n] :
                         n \in {30, MinPageLength} },
     scrape_pdf |-> { None, Some(MinPdfBytes), Some(MinPdfBytes + 1) }]

BrowserInit ==
    /\ playwright = FALSE /\ browser = FALSE /\ drivers = 0 /\ browsers = 0
    /\ contexts = 0 /\ pages = 0 /\ sc_pc = "idle" /\ sc_fn = "close"
    /\ poll_log = <<>> /\ poll_sleeps = <<>> /\ sc_ret = NoOutcome
    /\ scrapes = 0

othersUnchanged ==
    UNCHANGED <<posted, scrape_out, hashed, syncVars, retryVars, cliVars>>

\* except Exception as e: return ScrapeResult(success=False, error=str(e))
\* (the outer handler of scrape_page and scrape_pdf)
Caught ==
    /\ sc_pc' = "idle" /\ sc_ret' = Result(FALSE, "str(e)")

\* scrape_page or scrape_pdf is called.
BeginScrape ==
    /\ sc_pc = "idle" /\ scrapes < MaxScrapes
    /\ scrapes' = scrapes + 1
    /\ \E fn \in {"scrape_page", "scrape_pdf"} : sc_fn' = fn
    /\ sc_pc' = "ensure" /\ sc_ret' = NoOutcome
    /\ poll_log' = <<>> /\ poll_sleeps' = <<>>
    /\ UNCHANGED <<playwright, browser, drivers, browsers, contexts, pages>>
    /\ othersUnchanged

\* _ensure_browser: with no browser held, start the driver and launch a
\* browser; either call can raise.
EnsureBrowser ==
    /\ sc_pc = "ensure"
    /\ IF browser
       THEN /\ sc_pc' = "context"
            /\ UNCHANGED <<playwright, browser, drivers, browsers, sc_ret>>
       ELSE \/ /\ Caught
               /\ UNCHANGED <<playwright, browser, drivers, browsers>>
            \/ /\ playwright' = TRUE /\ drivers' = drivers + 1
               /\ \/ /\ Caught
                     /\ UNCHANGED <<browser, browsers>>
                  \/ /\ browser' = TRUE /\ browsers' = browsers + 1
                     /\ sc_pc' = "context"
                     /\ UNCHANGED sc_ret
    /\ UNCHANGED <<contexts, pages, sc_fn, poll_log, poll_sleeps, scrapes>>
    /\ othersUnchanged

\* context = await browser.new_context(...)
NewContext ==
    /\ sc_pc = "context"
    /\ \/ /\ Caught
          /\ UNCHANGED contexts
       \/ /\ contexts' = contexts + 1
          /\ sc_pc' = "page"
          /\ UNCHANGED sc_ret
    /\ UNCHANGED <<playwright, browser, drivers, browsers, pages, sc_fn,
                   poll_log, poll_sleeps, scrapes>>
    /\ othersUnchanged

\* page = await context.new_page(), before the inner try
NewPage ==
    /\ sc_pc = "page"
    /\ \/ /\ Caught
          /\ UNCHANGED pages
       \/ /\ pages' = pages + 1
          /\ sc_pc' = "goto"
          /\ UNCHANGED sc_ret
    /\ UNCHANGED <<playwright, browser, drivers, browsers, contexts, sc_fn,
                   poll_log, poll_sleeps, scrapes>>
    /\ othersUnchanged

\* await page.goto(url, ...): a timeout or a navigation error raises.
Goto ==
    /\ sc_pc = "goto"
    /\ \/ /\ sc_pc' = "finally" /\ sc_ret' = Result(FALSE, "str(e)")
       \/ /\ sc_pc' = "poll" /\ UNCHANGED sc_ret
    /\ UNCHANGED <<playwright, browser, drivers, browsers, contexts, pages,
                   sc_fn, poll_log, poll_sleeps, scrapes>>
    /\ othersUnchanged

\* A loop that gives up at the first marker.
PollLoopImpatient(seen) ==
    /\ poll_log' = Append(poll_log, seen)
    /\ poll_sleeps' = poll_sleeps
    /\ sc_pc' = "extract"

\* One iteration of the polling loop: with a marker in the content sleep a
\* second and go on, up to the last iteration; without one, break.
PollLoop(seen) ==
    /\ poll_log' = Append(poll_log, seen)
    /\ IF seen
       THEN /\ poll_sleeps' = Append(poll_sleeps, PollSleepSeconds)
            /\ sc_pc' = IF Len(poll_log) + 1 < MaxPollIterations
                        THEN "poll" ELSE "extract"
       ELSE /\ poll_sleeps' = poll_sleeps
            /\ sc_pc' = "extract"

\* for _ in range(10): content = await page.content(); ...
Poll ==
    /\ sc_pc = "poll"
    /\ \/ /\ sc_pc' = "finally" /\ sc_ret' = Result(FALSE, "str(e)")
          /\ UNCHANGED <<poll_log, poll_sleeps>>
       \/ /\ \E seen \in BOOLEAN : PollLoop(seen)
          /\ UNCHANGED sc_ret
    /\ UNCHANGED <<playwright, browser, drivers, browsers, contexts, pages,
                   sc_fn, scrapes>>
    /\ othersUnchanged

\* After the loop: the content is extracted and validated, whatever the
\* loop saw; an exception on the way is a failed result.
Extract ==
    /\ sc_pc = "extract"
    /\ sc_pc' = "finally"
    /\ \/ sc_ret' = Result(FALSE, "str(e)")
       \/ \E x \in Extracted[sc_fn] :
            sc_ret' =
              IF sc_fn = "scrape_page"
              THEN IF TooShort(x, MinPageLength)
                   THEN Result(FALSE, "Scraped content too short or empty")
                   ELSE Result(TRUE, "")
              ELSE IF LongEnough(x)
                   THEN Result(TRUE, "")
                   ELSE Result(FALSE, "Could not download PDF content")
    /\ UNCHANGED <<playwright, browser, drivers, browsers, contexts, pages,
                   sc_fn, poll_log, poll_sleeps, scrapes>>
    /\ othersUnchanged

\* finally: await page.close(); await context.close().  A close that raises
\* skips what follows it and turns the result into a failure.
Finally ==
    /\ sc_pc = "finally"
    /\ sc_pc' = "idle"
    /\ \/ /\ sc_ret' = Result(FALSE, "str(e)")
          /\ UNCHANGED <<pages, contexts>>
       \/ /\ pages' = pages - 1
          /\ \/ /\ sc_ret' = Result(FALSE, "str(e)")
                /\ UNCHANGED contexts
             \/ /\ contexts' = contexts - 1
                /\ UNCHANGED sc_ret
    /\ UNCHANGED <<playwright, browser, drivers, browsers, sc_fn, poll_log,
                   poll_sleeps, scrapes>>
    /\ othersUnchanged

\* close(): close the browser held, then stop the driver held; a closed
\* browser takes its contexts and pages with it.
Close ==
    /\ sc_pc = "idle"
    /\ sc_fn' = "close"
    /\ \/ /\ browser
          /\ sc_ret' = CloseRaised
          /\ UNCHANGED <<playwright, browser, drivers, browsers, contexts,
                         pages>>
       \/ /\ browser' = FALSE
          /\ browsers' = IF browser THEN browsers - 1 ELSE browsers
          /\ contexts' = IF browser THEN 0 ELSE contexts
          /\ pages' = IF browser THEN 0 ELSE pages
          /\ \/ /\ playwright
                /\ sc_ret' = CloseRaised
                /\ UNCHANGED <<playwright, drivers>>
             \/ /\ playwright' = FALSE
                /\ drivers' = IF playwright THEN drivers - 1 ELSE drivers
                /\ sc_ret' = CloseReturned
    /\ UNCHANGED <<sc_pc, poll_log, poll_sleeps, scrapes>>
    /\ othersUnchanged

NextBrowser ==
    \/ BeginScrape
    \/ EnsureBrowser
    \/ NewContext
    \/ NewPage
    \/ Goto
    \/ Poll
    \/ Extract
    \/ Finally
    \/ Close

ToolInit ==
    /\ posted = NothingSent /\ scrape_out = NotScraped /\ hashed = NotHashed
    /\ BrowserInit

\* ------------------------------------------------------------------ Spec
RetryInit ==
    /\ rq_client = "convex" /\ rq_pc = "idle" /\ attempt = 0
    /\ last_error = None /\ raised = None /\ requests = <<>>
    /\ sleeps = <<>> /\ now = InitialClock /\ last_request_time = 0
    /\ rq_calls = 0 /\ rq_caller = "request" /\ got = Pending

\* The agent, its collaborators and the frame of sync_source at the start.
AgentStart(d) ==
    /\ db = d
    /\ index = [dn \in DisplayNames |-> 0]
    /\ stores \in {0, 1}
    /\ store_cache = None /\ store_name = None
    /\ force = FALSE
    /\ batch_out = "none" /\ summary = NoSummary /\ syncs = 0
    /\ pc = "idle" /\ source = PLANNING_SOURCES[1] /\ result = NoScrape
    /\ content_hash = None /\ hash_check = NoCheck
    /\ upload_result = NoUpload /\ exc = None /\ ret = None /\ calls = <<>>
    /\ db0 = db /\ index0 = index /\ existed = FALSE /\ fault = FALSE
    /\ prev = [sid \in SourceIds |-> NoRun]

\* A metadata store without records.
EmptyStore == [sid \in SourceIds |-> NoDoc]

AgentInit == AgentStart(EmptyStore)

SyncInit == AgentInit /\ op = "none" /\ sources = <<>> /\ results = <<>>

Init == SyncInit /\ RetryInit /\ CliInit /\ ToolInit

\* The steps of sync_source and of its caller's loop.
SyncSourceStep ==
    \/ Scrape
    \/ FailedGetDocument
    \/ FailedUpdateStatus
    \/ CheckContentHash
    \/ UpsertDocument
    \/ GetStoreName
    \/ Upload
    \/ UploadFailedStatus
    \/ StatusIndexed
    \/ DetermineAction
    \/ Handler
    \/ Collect
    \/ Propagate
    \/ Finish

\* Single-source calls: sync_single, any number of times.
Next ==
    \/ SyncSingle
    \/ SyncSourceStep

Spec == Init /\ [][Next]_vars

\* Batch calls: sync_all and sync_by_frequency.
NextBatch ==
    \/ SyncAll
    \/ SyncByFrequency
    \/ SyncSourceStep

SpecBatch == Init /\ [][NextBatch]_vars

SpecRetry == Init /\ [][NextRetry]_vars

\* Both loops are coroutines that the event loop runs on: every awaited
\* request (timeout=...) and every asyncio.sleep comes back, so an iteration
\* that can be taken is taken.
SpecRetryFair ==
    SpecRetry /\ WF_vars(ConvexAttempt) /\ WF_vars(FirecrawlAttempt)

\* One run of the command line's sync command.
NextCli ==
    \/ RunSync
    \/ SyncSourceStep
    \/ RunSyncReturn

\* The metadata store outlives the process: a run of the command line
\* finds it empty, or with the record an earlier run left of a source whose
\* upload failed.
EarlierStores ==
    { EmptyStore,
      [EmptyStore EXCEPT ![PLANNING_SOURCES[1].id] =
          [exists |-> TRUE,
           contentHash |-> Some(compute_content_hash(Str(Text("ascii")))),
           status |-> "error", geminiFileUri |-> None]] }

InitCli ==
    /\ \E d \in EarlierStores : AgentStart(d)
    /\ op = "none" /\ sources = <<>> /\ results = <<>>
    /\ RetryInit /\ CliInit /\ ToolInit

SpecCli == InitCli /\ [][NextCli]_vars

\* The request bodies of the metadata store client.
SpecPayload == Init /\ [][NextPayload]_vars

\* The scrapers' validation of what they fetched.
SpecScrape == Init /\ [][NextScrape]_vars

\* The life of one PlaywrightScraper: scrapes and close calls in sequence.
SpecBrowser == Init /\ [][NextBrowser]_vars

\* Calls of compute_content_hash by themselves.
SpecHash == Init /\ [][ComputeContentHash]_vars

\* action: "created", "updated", "skipped", "error"
Actions == {"created", "updated", "skipped", "error"}

\* A batch call at the end of its loop, with any results: one result per
\* selected source, of any action, success being false for "error" alone.
SummaryInit ==
    /\ AgentInit /\ RetryInit /\ CliInit /\ ToolInit
    /\ op \in {"sync_all", "sync_by_frequency"}
    /\ \E n \in 0..MaxResults :
         /\ sources = SubSeq(ConfiguredSources, 1, n)
         /\ \E acts \in [1..n -> Actions] :
              results = [i \in 1..n |->
                           SyncResult(ConfiguredSources[i].id,
                                      acts[i] # "error", acts[i], None)]

\* The summary of a batch: the return statement of the batch calls alone.
SpecSummary == SummaryInit /\ [][Finish]_vars

\* ------------------------------------------------------------------ properties
\* The calls of an invocation that write to the metadata store or touch the
\* index.
WriteCalls == {"upsert_document", "update_status", "list_stores",
               "create_store", "upload_markdown", "upload_pdf"}
NoWriteCalls == \A i \in DOMAIN calls : calls[i].fn \notin WriteCalls

\* C1: a batch call (sync_all, sync_by_frequency) is never left by an
\* exception: whatever fails while one source is synced, the call goes on
\* to return a summary with one result per selected source.
C1_BatchNeverAborted ==
    op \in {"sync_all", "sync_by_frequency"} => batch_out # "raised"

\* C2: once check_content_hash has answered exists and not changed in an
\* unforced sync_source, the invocation has returned success, "skipped",
\* "Content unchanged", it has made no upsert, status, store or upload call,
\* and the metadata store and the index are as they were at its start.
C2_SkipLeavesNoTrace ==
    (hash_check.exists /\ ~hash_check.changed) =>
        /\ pc = "done" /\ ~force
        /\ ret = Some(SyncResult(source.id, TRUE, "skipped",
                                 Some(<<"Content unchanged">>)))
        /\ calls = << Call("scrape_page", "", None),
                      Call("check_content_hash", "", None) >>
        /\ NoWriteCalls
        /\ db = db0 /\ index = index0

C2_Skipped ==
    /\ pc = "done" /\ hash_check.exists /\ ~hash_check.changed
    /\ ret[1].action = "skipped"

\* C3: an unforced sync_source of a source whose previous sync scraped the
\* same text, with the metadata store answering every call of both, returns
\* "skipped" and makes no write call to the metadata store and no call to
\* the index.
C3_SecondRunSkipped ==
    (/\ pc = "done" /\ ~force /\ ~fault /\ result.success
     /\ prev[source.id] = result.markdown) =>
        /\ ret[1].success /\ ret[1].action = "skipped"
        /\ NoWriteCalls
        /\ db = db0 /\ index = index0

C3_SameContentTwice ==
    /\ pc = "done" /\ ~force /\ ~fault /\ result.success
    /\ prev[source.id] = result.markdown
    /\ ret[1].action = "skipped"
    /\ db[source.id].status = "indexed"

\* C4: a sync_source whose scrape, upsert and upload succeeded returns
\* "created" when the metadata store held no record of the source before the
\* upsert of this invocation, and "updated" when it held one.
C4_CreatedWhenNew ==
    (pc = "done" /\ ret[1].success /\ ret[1].action # "skipped") =>
        ret[1].action = IF existed THEN "updated" ELSE "created"

\* C10: sync_source never raises, and when it has tried to record an error
\* status it returns success=false, "error" and the message of the error it
\* was recording first, also when that update_status call failed.
C10_StatusFailureSwallowed ==
    /\ pc # "raised"
    /\ \A i \in DOMAIN calls :
         (/\ pc = "done"
          /\ calls[i].fn = "update_status" /\ calls[i].status = "error"
          /\ \A j \in 1..(i - 1) : calls[j].fn # "update_status") =>
            /\ ~ret[1].success /\ ret[1].action = "error"
            /\ ret[1].message = calls[i].msg

\* A 5xx response or a connection-level failure.
ServerFailure(rq) ==
    rq.kind = "failure" \/ (rq.kind = "response" /\ rq.status >= 500)
AllServerFailures ==
    requests # <<>> /\ \A i \in DOMAIN requests : ServerFailure(requests[i])

\* C5: a call of _retry_request, of either client, whose every attempt ends
\* in a 5xx response or a connection-level failure never returns, never
\* issues more than 3 requests, and has failed exactly when it has issued 3.
C5_ThreeRequests ==
    AllServerFailures =>
        /\ rq_pc # "returned"
        /\ Len(requests) <= 3
        /\ (rq_pc = "raised") <=> (Len(requests) = 3)

C5_Exhausted ==
    /\ rq_pc = "raised" /\ AllServerFailures /\ Len(requests) = 3
    /\ requests[1].kind = "failure" /\ requests[3].kind = "response"

\* C6: a 4xx response other than 429 is the last request of its call, on
\* whichever attempt it came: the call has raised that HTTP status error at
\* once, and no backoff was slept after the attempt.
C6_ClientErrorOnce ==
    \A i \in DOMAIN requests :
        (/\ requests[i].kind = "response"
         /\ 400 <= requests[i].status /\ requests[i].status < 500
         /\ requests[i].status # 429) =>
            /\ i = Len(requests)
            /\ rq_pc = "raised"
            /\ raised = HTTPStatusError(requests[i].status, i - 1)
            /\ \A j \in DOMAIN sleeps :
                 sleeps[j].after = i - 1 => sleeps[j].why = "rate_limit"

C6_ClientErrorOnRetry ==
    /\ rq_pc = "raised" /\ Len(requests) = 2
    /\ requests[1].status = 500 /\ requests[2].status = 400

\* C7: in both clients a 429 response received while attempts remain does
\* not end the call: the call raises on a 429 only when that was the last
\* attempt.
C7_RateLimitedRetried ==
    (/\ rq_pc = "raised" /\ requests # <<>>
     /\ requests[Len(requests)].kind = "response"
     /\ requests[Len(requests)].status = 429) =>
        Len(requests) = MAX_RETRIES

\* The error a request is observed to fail with.
ObservedError(rq, at) ==
    IF rq.kind = "failure" THEN RequestError(at)
    ELSE HTTPStatusError(rq.status, at)

\* C8: when _retry_request gives up after its last attempt, it raises the
\* error observed on that last attempt, whatever the mix of failures.
C8_RaisesLastObserved ==
    (rq_pc = "raised" /\ attempt = MAX_RETRIES) =>
        raised = ObservedError(requests[MAX_RETRIES], MAX_RETRIES - 1)

\* The seconds of the backoffs slept so far, in order.
BackoffSeconds ==
    LET only == SelectSeq(sleeps, LAMBDA sl : sl.why = "backoff")
    IN [i \in DOMAIN only |-> only[i].secs]

C11_ExceptionsBecomeErrorResults ==
    (pc \in {"done", "raised"} /\ exc # None) =>
        /\ pc = "done"
        /\ ret = Some(SyncResult(source.id, FALSE, "error", exc))
        /\ calls[Len(calls)] = Call("update_status", "error", exc)

UploadCalls == {"upload_markdown", "upload_pdf"}

\* C12: an upload call of an invocation comes after an upsert_document call
\* of the same invocation that carried status "crawled" and the fingerprint
\* of the scraped text, and by then the metadata store holds that
\* fingerprint for the source, whether the upload succeeds or fails.
C12_UpsertBeforeUpload ==
    /\ \A i \in DOMAIN calls :
         calls[i].fn \in UploadCalls =>
            /\ \E j \in 1..(i - 1) :
                 calls[j] = Call("upsert_document", "crawled", content_hash)
            /\ db[source.id].exists
            /\ db[source.id].contentHash = content_hash
    /\ pc \in {"indexed", "upload_failed"} =>
         content_hash =
            Some(compute_content_hash(Str(MarkdownOrEmpty(result))))

C12_UploadFailedAfterUpsert ==
    /\ pc = "upload_failed" /\ ~upload_result.success
    /\ ~db0[source.id].exists
    /\ db[source.id].contentHash = content_hash

\* C13: once the upload of an invocation has come back unsuccessful and the
\* branch taken on it has run, update_status("error") with the upload's
\* error detail has been called, no update_status("indexed") is called in
\* the invocation, and the result returned is success=false, "error".
C13_UploadFailureRecorded ==
    (upload_result.error # None /\ pc # "upload_failed") =>
        /\ \E i \in DOMAIN calls :
             calls[i] = Call("update_status", "error",
                             UploadFailedMessage(upload_result))
        /\ \A i \in DOMAIN calls :
             ~(calls[i].fn = "update_status" /\ calls[i].status = "indexed")
        /\ pc = "done" => (~ret[1].success /\ ret[1].action = "error")

C13_UploadFailedResult ==
    /\ pc = "done" /\ upload_result.error # None
    /\ ret[1] = SyncResult(source.id, FALSE, "error",
                           UploadFailedMessage(upload_result))

C15_NotRepublished ==
    (/\ pc = "done" /\ ~force /\ ~fault /\ result.success
     /\ db0[source.id].exists
     /\ db0[source.id].contentHash = content_hash
     /\ db0[source.id].status # "indexed") =>
        /\ ret[1].success /\ ret[1].action = "skipped"
        /\ \A i \in DOMAIN calls :
             calls[i].fn \notin UploadCalls \cup {"upsert_document"}
        /\ index = index0

C15_SkippedAfterFailedUpload ==
    /\ pc = "done" /\ ~force /\ ~fault
    /\ prev[source.id] = result.markdown
    /\ db0[source.id].status = "error"
    /\ db0[source.id].contentHash = content_hash
    /\ store_name # None
    /\ index0[DisplayName(source, <<>>)] = 0
    /\ ret[1].action = "skipped"

\* C16: in an invocation whose scrape failed no check_content_hash, no
\* upsert_document and no index call is made; when the metadata store
\* answers, update_status("error") with the scraper's error is called
\* exactly when get_document found a record of the source, and either way
\* the result is success=false, "error" with the scraper's error.
C16_ScrapeFailureRecorded ==
    result.error # None =>
        /\ \A i \in DOMAIN calls :
             calls[i].fn \notin UploadCalls \cup
                {"check_content_hash", "upsert_document", "list_stores",
                 "create_store"}
        /\ (pc = "done" /\ ~fault) =>
             /\ ret = Some(SyncResult(source.id, FALSE, "error", result.error))
             /\ (\E i \in DOMAIN calls : calls[i].fn = "update_status")
                    <=> db0[source.id].exists
             /\ \A i \in DOMAIN calls :
                  calls[i].fn = "update_status" =>
                     calls[i] = Call("update_status", "error", result.error)

C16_ExistingRecordMarked ==
    /\ pc = "done" /\ ~fault /\ result.error # None
    /\ db0[source.id].exists /\ db0[source.id].status = "indexed"
    /\ db[source.id].status = "error"
    /\ calls[Len(calls)] = Call("update_status", "error", result.error)

\* C17: every update_status("indexed") call carries the reference the index
\* returned for the upload, and every record in status "indexed" holds a
\* reference.
C17_IndexedCarriesReference ==
    /\ \A i \in DOMAIN calls :
         (calls[i].fn = "update_status" /\ calls[i].status = "indexed") =>
            calls[i].msg # None
    /\ \A sid \in SourceIds :
         db[sid].status = "indexed" => db[sid].geminiFileUri # None

\* C18: in a forced sync_source check_content_hash is never called and the
\* result is never "skipped": after a successful scrape upsert_document is
\* called, and an invocation that ends without an exception has gone on to
\* the upload, also when the stored fingerprint equals the new one.
C18_ForceNeverSkips ==
    force =>
        /\ \A i \in DOMAIN calls : calls[i].fn # "check_content_hash"
        /\ pc = "done" => ret[1].action # "skipped"
        /\ (result.success /\ pc # "upsert") =>
             \E i \in DOMAIN calls : calls[i].fn = "upsert_document"
        /\ (result.success /\ pc = "done" /\ exc = None) =>
             \E i \in DOMAIN calls : calls[i].fn \in UploadCalls

C18_ForcedSameContent ==
    /\ force /\ pc = "done" /\ exc = None
    /\ db0[source.id].contentHash = content_hash
    /\ db0[source.id].status = "indexed"
    /\ ret[1].action = "updated"
    /\ index # index0

\* A sync_single call that found no source of the id it was given.
UnknownSource == op = "sync_single" /\ sources = <<>>

\* C19 as stated: sync_single of an id that is not configured answers
\* success=false, "error" with the message "Source not found".
C19_MessageSourceNotFound ==
    UnknownSource =>
        results = << SyncResult(results[1].source_id, FALSE, "error",
                                Some(<<"Source not found">>)) >>

\* C19: sync_single of an id that is not configured answers success=false,
\* "error" with the message "Source not found: " followed by the id, and
\* calls neither the scraper nor the metadata store nor the index.
C19_UnknownSourceFails ==
    UnknownSource =>
        /\ Len(results) = 1
        /\ results[1].source_id \notin SourceIds
        /\ results[1] =
              SyncResult(results[1].source_id, FALSE, "error",
                  Some(<<"Source not found: ", results[1].source_id>>))
        /\ pc = "idle" /\ calls = <<>>
        /\ db = db0 /\ index = index0

C19_UnknownSourceReturned ==
    /\ UnknownSource /\ batch_out = "returned"
    /\ results[1].source_id = "no-such-source"
    /\ \E sid \in SourceIds : db[sid].exists

\* C20: in every summary a batch call returns, total is the sum of created,
\* updated, skipped and failed, and is the number of results the summary
\* holds.
C20_TotalIsSum ==
    (batch_out = "returned" /\ op \in {"sync_all", "sync_by_frequency"}) =>
        /\ summary.total = summary.created + summary.updated
                           + summary.skipped + summary.failed
        /\ summary.total = Len(summary.results)
        /\ summary.results = results

C20_MixedSummary ==
    /\ batch_out = "returned" /\ op = "sync_by_frequency"
    /\ summary.total = 3 /\ summary.created = 1
    /\ summary.skipped = 1 /\ summary.failed = 1

BatchCalls == {"sync_all", "sync_by_frequency"}

\* C21: the results of a batch call follow the selected sources: the i-th
\* result is the result of the i-th selected source, and the summary the
\* call returns holds one result per selected source, in that order.
C21_ResultsInSourceOrder ==
    op \in BatchCalls =>
        /\ Len(results) <= Len(sources)
        /\ \A i \in DOMAIN results : results[i].source_id = sources[i].id
        /\ batch_out = "returned" =>
             /\ summary.results = results
             /\ Len(summary.results) = Len(sources)

C21_TwoSourcesInOrder ==
    /\ op = "sync_all" /\ batch_out = "returned"
    /\ Len(summary.results) = 2
    /\ summary.results[1].source_id = PLANNING_SOURCES[1].id
    /\ summary.results[2].source_id = PLANNING_SOURCES[2].id
    /\ summary.results[1].action # summary.results[2].action

\* success and action of a result agree: "skipped" comes with success,
\* "error" with failure.
Consistent(r) ==
    /\ r.action = "skipped" => r.success
    /\ r.action = "error" => ~r.success

\* C22: every result sync_source returns and every result sync_single
\* hands on is consistent: no "error" with success=true, no "skipped" with
\* success=false.
C22_ActionMatchesSuccess ==
    /\ pc = "done" => Consistent(ret[1])
    /\ \A i \in DOMAIN results : Consistent(results[i])

C22_SkippedWithSuccess ==
    /\ op = "sync_single" /\ pc = "done"
    /\ ret[1].action = "skipped" /\ ret[1].success
    /\ prev[source.id] = result.markdown

\* C23: sync_source returns "skipped" only after check_content_hash
\* answered exists and not changed for the fingerprint of the text just
\* scraped; after any other answer the next step is upsert_document.
C23_SkipOnlyWhenUnchanged ==
    /\ (pc = "done" /\ ret[1].action = "skipped") =>
          /\ hash_check.exists /\ ~hash_check.changed
          /\ calls[Len(calls)].fn = "check_content_hash"
          /\ content_hash =
                Some(compute_content_hash(Str(MarkdownOrEmpty(result))))
    /\ (calls # <<>> /\ calls[Len(calls)].fn = "check_content_hash") =>
          \/ pc = "handler" /\ exc = Some(StoreError("check_content_hash"))
          \/ /\ pc = "done" /\ ret[1].action = "skipped"
             /\ hash_check.exists /\ ~hash_check.changed
          \/ /\ pc = "upsert"
             /\ ~hash_check.exists \/ hash_check.changed

C23_ChangedProceeds ==
    /\ pc = "upsert" /\ calls[Len(calls)].fn = "check_content_hash"
    /\ hash_check.exists /\ hash_check.changed

StoreRequests == {"list_stores", "create_store"}

\* C24: once the agent has resolved its store, no step changes the handle,
\* and no step issues a list or a create request to the index backend.
C24_StoreResolvedOnce ==
    [][store_name # None =>
          /\ store_name' = store_name
          /\ store_cache' = store_cache
          /\ stores' = stores
          /\ \A i \in DOMAIN calls' :
               i > Len(calls) => calls'[i].fn \notin StoreRequests]_vars

C24_SecondResolution ==
    /\ pc = "upload" /\ store_name # None /\ store_name = store_cache
    /\ \A i \in DOMAIN calls : calls[i].fn \notin StoreRequests

\* C25: the index backend never holds two stores under the display name:
\* no create request is issued while a store of that name exists.
C25_NoDuplicateStore == stores <= 1

\* C26: every request the Firecrawl client issues is issued at least
\* RATE_LIMIT_DELAY after the request it issued before, on every attempt of
\* every call, and the time of the request is what the limiter remembers.
C26_RequestsSpacedOut ==
    [][(rq_client = "firecrawl" /\ Len(requests') > Len(requests)) =>
          /\ requests'[Len(requests')].t
                >= last_request_time + RATE_LIMIT_DELAY
          /\ last_request_time' = requests'[Len(requests')].t]_vars

C26_SleptForTheRemainder ==
    /\ rq_client = "firecrawl" /\ Len(requests) = 2
    /\ requests[1].status = 500
    /\ requests[2].t = requests[1].t + RATE_LIMIT_DELAY
    /\ \E j \in DOMAIN sleeps :
         /\ sleeps[j] = Sleep("rate_limit", RATE_LIMIT_DELAY - 1, 1)

\* C27: a 404 answer to get_document ends the call at once, with no request
\* and no backoff after it, and get_document gives None; it gives the
\* document when a request succeeds; and it raises what _retry_request
\* raised in every other case, which covers every other 4xx and every
\* failure that outlived the retries.
C27_NotFoundIsNone ==
    rq_caller = "get_document" =>
        /\ \A i \in DOMAIN requests : requests[i].status = 404 =>
             /\ i = Len(requests) /\ rq_pc = "raised"
             /\ \A j \in DOMAIN sleeps : sleeps[j].after # i - 1
        /\ got # Pending =>
             LET last == requests[Len(requests)]
             IN /\ last.status = 404 => got = ReturnedNone
                /\ last.status = 200 => got = Document
                /\ last.status \notin {200, 404} =>
                     /\ got = Raised(raised) /\ raised # None
                     /\ ConvexTerminal(last.status) =>
                          raised = HTTPStatusError(last.status,
                                                   Len(requests) - 1)
                     /\ ~ConvexTerminal(last.status) =>
                          /\ Len(requests) = MAX_RETRIES
                          /\ raised = last_error

C27_NoneOnFirstAnswer ==
    /\ rq_caller = "get_document" /\ got = ReturnedNone
    /\ Len(requests) = 1 /\ requests[1].status = 404

C27_OtherClientErrorRaised ==
    /\ rq_caller = "get_document" /\ got.out = "raised"
    /\ requests[Len(requests)].status = 400

\* The ids of the configured sources a selection of the command line names,
\* in the configured order.
SelectedIds(a) ==
    LET keep == { i \in DOMAIN PLANNING_SOURCES :
                    \/ a.all_sources
                    \/ a.frequency = Some(PLANNING_SOURCES[i].sync_frequency)
                    \/ a.source_id = Some(PLANNING_SOURCES[i].id) }
        pick[n \in 0..Len(PLANNING_SOURCES)] ==
            IF n = 0 THEN <<>>
            ELSE IF n \in keep THEN Append(pick[n - 1], PLANNING_SOURCES[n].id)
            ELSE pick[n - 1]
    IN pick[Len(PLANNING_SOURCES)]

\* A dry run that touched nothing: no agent, no sync_source invocation, no
\* call to the scraper, the metadata store or the index, run_sync returned.
Untouched ==
    /\ cli_pc = "exited" /\ ~agent_created
    /\ op = "none" /\ syncs = 0 /\ pc = "idle" /\ calls = <<>>
    /\ db = db0
    /\ \A dn \in DisplayNames : index[dn] = 0
    /\ store_name = None /\ store_cache = None

OptionalFields ==
    [upsert_document |->
        { <<"markdownContent", "markdown_content">>,
          <<"pdfStorageId", "pdf_storage_id">> },
     update_status |->
        { <<"errorMessage", "error_message">>,
          <<"geminiFileUri", "gemini_file_uri">>,
          <<"fileSearchStoreId", "file_search_store_id">> }]

\* C28: the body of an upsert_document or update_status request holds an
\* optional field exactly when the caller's argument is not None, and then
\* with the argument's value; an argument left out puts no key in the body.
C28_OptionalFieldsOmitted ==
    posted.fn # "none" =>
        \A f \in OptionalFields[posted.fn] :
            /\ f[1] \in DOMAIN posted.body <=> posted.args[f[2]] # None
            /\ f[1] \in DOMAIN posted.body =>
                 posted.body[f[1]] = posted.args[f[2]][1]

C28_StatusWithUriOnly ==
    /\ posted.fn = "update_status" /\ posted.args.status = "indexed"
    /\ posted.args.error_message = None
    /\ posted.args.file_search_store_id = None
    /\ posted.args.gemini_file_uri = Some("text")
    /\ DOMAIN posted.body = {"sourceId", "status", "geminiFileUri"}

\* The threshold of a fetch: 50 for a page, 100 for a document.
Threshold(fn) ==
    IF fn = "scrape_page" THEN MinPageLength ELSE MinDocumentLength

\* C29: whenever a scraper of either backend has fetched content, its
\* result is a failure exactly when that content is shorter than the
\* threshold of the fetch; content of the threshold's length succeeds.
C29_ThresholdDecides ==
    scrape_out.fetched =>
        (scrape_out.success <=> scrape_out.length >= Threshold(scrape_out.fn))

\* What holds of the scrapers: the same, but for a document of exactly
\* MinPdfBytes bytes fetched by PlaywrightScraper.scrape_pdf.
ThresholdDecidesButAtPdfBoundary ==
    (/\ scrape_out.fetched
     /\ ~(/\ scrape_out.backend = "playwright" /\ scrape_out.fn = "scrape_pdf"
          /\ scrape_out.length = MinPdfBytes)) =>
        (scrape_out.success <=> scrape_out.length >= Threshold(scrape_out.fn))

\* The outcomes that count as a success.
Successes == {"created", "updated", "skipped"}
AllSucceeded == \A i \in DOMAIN results : results[i].action \in Successes

\* run_sync returned from the configuration check: nothing was processed,
\* no agent made and no collaborator called.
NothingProcessed ==
    /\ ~agent_created /\ op = "none" /\ syncs = 0 /\ results = <<>>
    /\ pc = "idle" /\ calls = <<>> /\ db = db0
    /\ store_name = None /\ store_cache = None

C31_SingleSucceeded ==
    /\ cli_pc = "exited" /\ op = "sync_single" /\ exit_code = Some(0)
    /\ results[1].action \in Successes /\ agent_created

C31_CredentialMissing ==
    /\ cli_pc = "exited" /\ ~cli_args.env_ok /\ ~cli_args.dry_run
    /\ exit_code = Some(1)

ScrapeMethods == {"scrape_page", "scrape_pdf"}
MarkersSeen == { i \in DOMAIN poll_log : poll_log[i] }

\* C33: the polling loop of scrape_page and scrape_pdf runs at most
\* MaxPollIterations iterations, sleeps one second in each iteration that
\* saw a marker and in no other, and ends at the first iteration without a
\* marker; after MaxPollIterations iterations with a marker the scrape has
\* gone on to the extraction with no failure recorded.
C33_PollingBounded ==
    sc_fn \in ScrapeMethods =>
        /\ Len(poll_log) <= MaxPollIterations
        /\ \A i \in DOMAIN poll_log : i < Len(poll_log) => poll_log[i]
        /\ Len(poll_sleeps) = Cardinality(MarkersSeen)
        /\ \A j \in DOMAIN poll_sleeps : poll_sleeps[j] = PollSleepSeconds
        /\ sc_pc = "poll" =>
             Len(poll_log) < MaxPollIterations /\ MarkersSeen = DOMAIN poll_log
        /\ (poll_log # <<>> /\ ~poll_log[Len(poll_log)]) => sc_pc # "poll"
        /\ Len(poll_log) = MaxPollIterations =>
             sc_pc \in {"extract", "finally", "idle"}
        /\ sc_pc = "extract" => sc_ret = NoOutcome

C33_ChallengeTakenAsContent ==
    /\ sc_fn = "scrape_page" /\ sc_pc = "idle"
    /\ Len(poll_log) = MaxPollIterations /\ MarkersSeen = DOMAIN poll_log
    /\ Len(poll_sleeps) = MaxPollIterations
    /\ sc_ret = Result(TRUE, "")

\* What holds of the browser: at most one is launched and not closed, and
\* after a close that returned the scraper holds no browser and no driver.
BrowserHeldOnce ==
    /\ browsers <= 1
    /\ browser <=> browsers = 1
    /\ (sc_fn = "close" /\ sc_ret = CloseReturned) =>
         ~browser /\ ~playwright /\ browsers = 0

\* C39: at most one browser is launched and not closed, every context and
\* page a scrape opened is closed when the scrape has returned, and after a
\* close that returned the scraper holds no browser and no driver.
C39_EverythingClosed ==
    /\ BrowserHeldOnce
    /\ (sc_fn \in ScrapeMethods /\ sc_pc = "idle") =>
         contexts = 0 /\ pages = 0

\* C34: an invocation of sync_source calls the scraper once, as its first
\* call, and after a failed scrape it only asks for the record and marks it;
\* within a batch no source is synced twice, so a source whose validation
\* failed is not scraped again in that run.
C34_ScrapedOnce ==
    /\ pc # "idle" =>
         /\ calls # <<>> /\ calls[1].fn \in ScrapeMethods
         /\ \A i \in DOMAIN calls : i > 1 => calls[i].fn \notin ScrapeMethods
         /\ ~result.success =>
              \A i \in DOMAIN calls :
                  i > 1 => calls[i].fn \in {"get_document", "update_status"}
    /\ op \in BatchCalls =>
         /\ \A i, j \in DOMAIN results :
              results[i].source_id = results[j].source_id => i = j
         /\ pc # "idle" =>
              \A i \in DOMAIN results : results[i].source_id # source.id

C34_FailedThenNextSource ==
    /\ op = "sync_all" /\ Len(results) = 1 /\ pc # "idle"
    /\ results[1] = SyncResult(PLANNING_SOURCES[1].id, FALSE, "error",
                               Some(<<"Scraped content too short or empty">>))
    /\ source = PLANNING_SOURCES[2] /\ Len(calls) = 1

IsIndexedCall(c) == c.fn = "update_status" /\ c.status = "indexed"

\* C35: an update_status("indexed") call of an invocation comes right after
\* an upload call of the same invocation that returned success, after an
\* upsert_document call, and with no failed call and no error status before
\* it; and a result "created" or "updated" is returned only by an
\* invocation whose update_status("indexed") call and every other metadata
\* store call were answered.
C35_IndexedOnlyAfterUpload ==
    /\ \A i \in DOMAIN calls : IsIndexedCall(calls[i]) =>
         /\ i > 2 /\ calls[i - 1].fn \in UploadCalls
         /\ upload_result.success /\ upload_result.error = None
         /\ \E j \in 1..(i - 2) :
              calls[j].fn = "upsert_document" /\ calls[j].status = "crawled"
         /\ \A j \in 1..(i - 1) : calls[j].fn # "update_status"
         /\ (pc = "get_existing" \/ (pc = "done" /\ ret[1].success)) => ~fault
    /\ (pc = "done" /\ ret[1].action \in {"created", "updated"}) =>
         /\ ret[1].success /\ ~fault /\ exc = None
         /\ Len(calls) > 1
         /\ IsIndexedCall(calls[Len(calls) - 1])
         /\ calls[Len(calls)].fn = "get_document"

C35_UpdatedAfterIndexed ==
    /\ pc = "done" /\ ret[1].action = "updated" /\ upload_result.success
    /\ IsIndexedCall(calls[Len(calls) - 1])
    /\ syncs = 2

\* The attempts a call has used: one per request, none without a request.
AttemptsCounted ==
    /\ Len(requests) <= MAX_RETRIES /\ attempt <= MAX_RETRIES
    /\ rq_pc = "loop" => attempt < MAX_RETRIES /\ Len(requests) = attempt
    /\ rq_pc = "returned" => Len(requests) = attempt + 1
    /\ rq_pc = "raised" =>
         Len(requests) = attempt \/ Len(requests) = attempt + 1
    /\ \A j \in DOMAIN sleeps : sleeps[j].after < Len(requests)

\* C36: a call of _retry_request, of either client, never issues more than
\* max_retries requests, a 429 answered to FirecrawlTool counts as one of
\* them, and a call in its loop always comes to an end: it returns or raises.
C36_Terminates ==
    /\ []AttemptsCounted
    /\ (rq_pc = "loop") ~> (rq_pc \in {"returned", "raised"})

C36_RateLimitedThreeTimes ==
    /\ rq_client = "firecrawl" /\ rq_pc = "raised"
    /\ Len(requests) = MAX_RETRIES
    /\ \A i \in DOMAIN requests : requests[i].status = 429

\* A response that raise_for_status lets through.
Successful(rq) == rq.kind = "response" /\ rq.status < 400

\* C37: the first successful response of a call of _retry_request, of either
\* client, is its last request and the call has returned it: nothing is
\* raised, whatever failed on the attempts before, and nothing is slept after
\* that request. A call that has returned has returned such a response, and
\* get_document then hands the document on.
C37_FirstSuccessReturned ==
    /\ \A i \in DOMAIN requests : Successful(requests[i]) =>
         /\ i = Len(requests)
         /\ rq_pc = "returned" /\ raised = None
         /\ attempt = i - 1
         /\ now = requests[i].t
         /\ \A j \in DOMAIN sleeps :
              sleeps[j].after = i - 1 => sleeps[j].why = "rate_limit"
    /\ rq_pc = "returned" =>
         /\ requests # <<>> /\ Successful(requests[Len(requests)])
         /\ got \in {Pending, Document}

C37_SucceededOnThirdAttempt ==
    /\ rq_pc = "returned" /\ Len(requests) = 3
    /\ requests[1].status = 500 /\ requests[2].kind = "failure"
    /\ last_error = RequestError(1)
    /\ Len(sleeps) >= 2

CreateStoreFailed == Some(<<"create store failed">>)

\* C38: the agent's store handle is written only by a resolution that
\* succeeded, and only while it is unset: a resolution that raises leaves the
\* agent's handle and the tool's cache unset, the source it was for ends,
\* where sync_source returns a result, as an "error" result, every source
\* that reaches the publish step with the handle unset asks the index
\* backend again, and a handle that is set is never replaced or cleared.
C38_HandleSetOnSuccessOnly ==
    [][/\ store_name' # store_name =>
            /\ store_name = None /\ store_name' # None
            /\ pc = "store" /\ pc' = "upload"
            /\ store_cache' = store_name'
            /\ stores' >= 1
       /\ (pc = "store" /\ pc' = "handler") =>
            /\ exc' = CreateStoreFailed
            /\ store_name' = None /\ store_cache' = None
       /\ (pc = "store" /\ store_name = None) =>
            \E i \in DOMAIN calls' :
                i > Len(calls) /\ calls'[i].fn = "list_stores"
       /\ (pc = "handler" /\ exc = CreateStoreFailed /\ pc' = "done") =>
            /\ ~ret'[1].success /\ ret'[1].action = "error"
            /\ ret'[1].message = CreateStoreFailed
            /\ store_name' = None]_vars

C38_ResolvedAfterFailure ==
    /\ pc = "upload" /\ store_name # None
    /\ \E i \in DOMAIN results : results[i].message = CreateStoreFailed
    /\ \E i \in DOMAIN calls : calls[i].fn = "list_stores"

====
